---- MODULE Spec2Model ----
(***************************************************************************)
(* State-machine model of the robotic-arm controllers under                *)
(* src/tools/robotic-arm-controller/device:                                *)
(*   "http" : wifi-4degree-tester.py   (asyncio HTTP controller)           *)
(*   "ws"   : wifi-tester-websockets.py (single-loop WebSocket controller) *)
(*   "ws_pca" : the same with USE_PCA9685 = True (servos on a PCA9685)     *)
(*   "pca"  : pca-testcode-4degree.py  (PCA9685 driver, set_servo_angle)   *)
(* The variable `variant` selects which program a behaviour is a run of.   *)
(* Text (request bodies, file names) is a sequence of one-character        *)
(* strings; indices into text are 0-based as in the source.                *)
(***************************************************************************)
EXTENDS Integers, Sequences, FiniteSets, TLC

VARIABLES
    variant,        \* which program runs: "http", "ws", "ws_pca" or "pca"
    servos,         \* Servo.a per channel: the stored angle
    hw,             \* last value written to the hardware per channel
    q,              \* ArmCtrl.q: pending (joint, angle) instructions
    stop,           \* ArmCtrl.stop: the emergency latch
    is_playing,     \* ArmCtrl.is_playing
    playback_queue, \* ArmCtrl.playback_queue: (joint, angle, delay) steps
    pc,             \* position of servo_task (http) / of run's loop (ws)
    timer,          \* ms left of the sleep the loop is suspended in
    files,          \* the file system: name -> contents
    clients,        \* ArmCtrl.clients (ws): one record per WSClient
    resp,           \* the last response or frame written to a client
    elapsed,        \* history: ms since the latch went from clear to engaged
    started,        \* history: steps of a playback start not yet dispatched
    wire,           \* bytes received on the client's socket and not yet read
    frame,          \* (opcode, payload) of the last read_frame in run
    out,            \* bytes of the last send on the client's socket
    text,           \* the bytes send_text was last called with
    hs,             \* what ws_handshake last answered on an accepted socket
    rd,             \* read_http_request: content_length, i and where it is
    unsent,         \* bytes the client has sent that are still on their way
    pot_reader,     \* PotReader: last_angles per potentiometer and last_read
    changes,        \* run (pot-control): the changes still to be applied
    ticks           \* time.ticks_ms()

\* the potentiometer controller's reader, its loop and its clock
potVars == << pot_reader, changes, ticks >>

\* the client's socket, the frame read from it and what is sent on it; the
\* network programs leave the potentiometer controller's variables alone
netVars == << wire, frame, out, text, hs, rd, unsent, potVars >>

vars == << variant, servos, hw, q, stop, is_playing, playback_queue, pc,
           timer, files, clients, resp, elapsed, started, netVars >>

----------------------------------------------------------------------------
(* Bounds of the model *)

\* instructions the clients let pile up in the Command Queue
MaxQueue == 2
\* the same for the WebSocket controller, where home queues dof at once
MaxWsQueue == 5
\* resolution of the clock: the most ms that pass in one Advance step
TimeStep == 1000
\* bytes of the longest text handed to send_text
MaxText == 300
\* instructions a client that sends home again and again lets pile up
MaxDeep == 68

\* the largest Content-Length a request announces
MaxBody == 600

\* the potentiometer controller's clock stops at this many ms
MaxTicks == 1600

(* Program constants *)

dof == 4
ANGLE_MIN == 0
ANGLE_MAX == 180
HOME_ANGLE == 90
GRACE_MS == 2000
LED_MS == 20
LOOP_MS == 50
ERR_MS == 100
WS_GRACE_MS == 1000
WS_LOOP_MS == 20
WS_ERR_MS == 100
POT_DEADBAND == 3
POT_READ_DELAY == 100
POT_CENTER == 90
POT_HOME_MS == 1000
POT_LOOP_MS == 20
POT_ERR_MS == 500
ESP32_ADC_MAX == 4095
ESP8266_ADC_MAX == 1024
NAME_MAX == 20
PCA_SERVO_COUNT == 6

None == "None"

Min(S) == CHOOSE x \in S : \A y \in S : x <= y

----------------------------------------------------------------------------
(* Text: str.find, slicing, str.strip, `in`, int() *)

\* pat occurs in s at 0-based index i
MatchAt(s, pat, i) ==
    /\ i >= 0
    /\ i + Len(pat) <= Len(s)
    /\ \A k \in 1..Len(pat) : s[i + k] = pat[k]

\* s.find(pat, start): the lowest index >= start where pat occurs, else -1
Find(s, pat, start) ==
    LET hits == { i \in start..(Len(s) - Len(pat)) : MatchAt(s, pat, i) }
    IN  IF hits = {} THEN -1 ELSE Min(hits)

\* pat in s
Contains(s, pat) == Find(s, pat, 0) # -1

\* s[a:b] for a >= 0; a negative b counts from the end
Slice(s, a, b) ==
    LET e0 == IF b < 0 THEN Len(s) + b ELSE b
        e  == IF e0 < 0 THEN 0 ELSE IF e0 > Len(s) THEN Len(s) ELSE e0
    IN  IF a >= e THEN << >> ELSE SubSeq(s, a + 1, e)

RECURSIVE LStrip(_)
LStrip(s) == IF s # << >> /\ Head(s) = " " THEN LStrip(Tail(s)) ELSE s

RECURSIVE RStrip(_)
RStrip(s) ==
    IF s # << >> /\ s[Len(s)] = " " THEN RStrip(SubSeq(s, 1, Len(s) - 1)) ELSE s

\* s.strip()
Strip(s) == RStrip(LStrip(s))

Digits == << "0", "1", "2", "3", "4", "5", "6", "7", "8", "9" >>

IsDigit(c) == \E d \in 1..10 : Digits[d] = c

DigitVal(c) == (CHOOSE d \in 1..10 : Digits[d] = c) - 1

RECURSIVE DecVal(_)
DecVal(s) ==
    IF s = << >> THEN 0
    ELSE 10 * DecVal(SubSeq(s, 1, Len(s) - 1)) + DigitVal(s[Len(s)])

\* int(s): [ok, val]; ok is FALSE where int() raises ValueError
ParseInt(s) ==
    LET t    == Strip(s)
        sign == t # << >> /\ Head(t) \in {"-", "+"}
        body == IF sign THEN Tail(t) ELSE t
    IN  IF body # << >> /\ \A k \in 1..Len(body) : IsDigit(body[k])
        THEN [ok |-> TRUE,
              val |-> IF sign /\ Head(t) = "-" THEN 0 - DecVal(body)
                      ELSE DecVal(body)]
        ELSE [ok |-> FALSE, val |-> 0]

----------------------------------------------------------------------------
(* Text constants of the source, and the pieces request bodies are built of *)

\* '"joint_move"'
K_JOINT_MOVE ==
    << "\"", "j", "o", "i", "n", "t", "_", "m", "o", "v", "e", "\"" >>

\* '"joint":'
K_JOINT ==
    << "\"", "j", "o", "i", "n", "t", "\"", ":" >>

\* '"angle":'
K_ANGLE ==
    << "\"", "a", "n", "g", "l", "e", "\"", ":" >>

\* '"filename":'
K_FILENAME ==
    << "\"", "f", "i", "l", "e", "n", "a", "m", "e", "\"", ":" >>

\* '"filename":"'
K_FILENAME_Q ==
    << "\"", "f", "i", "l", "e", "n", "a", "m", "e", "\"", ":", "\"" >>

\* '"movements":'
K_MOVEMENTS ==
    << "\"", "m", "o", "v", "e", "m", "e", "n", "t", "s", "\"", ":" >>

\* the fallback file name
REC_JSON ==
    << "r", "e", "c", ".", "j", "s", "o", "n" >>

\* request text: the opening of a joint_move body
T_TYPE ==
    << "{", "\"", "t", "y", "p", "e", "\"", ":", "\"", "j", "o", "i", "n",
       "t", "_", "m", "o", "v", "e", "\"", "," >>

\* request text: a body of another type
T_TYPE_OTHER ==
    << "{", "\"", "t", "y", "p", "e", "\"", ":", "\"", "p", "i", "n", "g",
       "\"", "," >>

\* request text: the step (0,45,100)
T_STEP1 ==
    << "{", "\"", "j", "o", "i", "n", "t", "\"", ":", "0", ",", "\"", "a",
       "n", "g", "l", "e", "\"", ":", "4", "5", ",", "\"", "d", "e", "l",
       "a", "y", "\"", ":", "1", "0", "0", "}" >>

\* request text: the step (1,90,50)
T_STEP2 ==
    << "{", "\"", "j", "o", "i", "n", "t", "\"", ":", "1", ",", "\"", "a",
       "n", "g", "l", "e", "\"", ":", "9", "0", ",", "\"", "d", "e", "l",
       "a", "y", "\"", ":", "5", "0", "}" >>

\* request text: the step (7,200,10)
T_STEP_BAD ==
    << "{", "\"", "j", "o", "i", "n", "t", "\"", ":", "7", ",", "\"", "a",
       "n", "g", "l", "e", "\"", ":", "2", "0", "0", ",", "\"", "d", "e",
       "l", "a", "y", "\"", ":", "1", "0", "}" >>

\* request text: a file name
N_SEQ ==
    << "s", "e", "q", ".", "j", "s", "o", "n" >>

\* request text: a file name of more than 20 characters
N_LONG ==
    << "a", "-", "r", "e", "c", "o", "r", "d", "i", "n", "g", "-", "o", "f",
       "-", "t", "h", "e", "-", "a", "r", "m", ".", "j", "s", "o", "n" >>

----------------------------------------------------------------------------
(* Requests the clients send *)

JointBody(jt, at) ==
    T_TYPE \o K_JOINT \o jt \o << "," >> \o K_ANGLE \o at \o << "}" >>

\* joint in [0, dof): (1, 200) and (0, -5), and (1, 200) with the keys swapped
ValidJointBodies ==
    { JointBody(<< "1" >>, << "2", "0", "0" >>),
      JointBody(<< "0" >>, << " ", "-", "5" >>),
      T_TYPE \o K_ANGLE \o << "2", "0", "0", "," >> \o K_JOINT \o << "1", "}" >> }

\* joint outside [0, dof)
RangeJointBodies ==
    { JointBody(<< "7" >>, << "9", "0" >>),
      JointBody(<< "-", "1" >>, << "9", "0" >>),
      JointBody(<< "4" >>, << "9", "0" >>) }

\* not a joint_move command, or a field that is no integer
BadJointBodies ==
    { JointBody(<< "x" >>, << "9", "0" >>),
      JointBody(<< "1" >>, << "9", ".", "5" >>),
      T_TYPE_OTHER \o K_JOINT \o << "1", "," >> \o K_ANGLE \o << "9", "0", "}" >>,
      T_TYPE \o K_JOINT \o << "1", "}" >> }

\* a joint_move body cut off before its closing brace
CutJointBodies ==
    { T_TYPE \o K_JOINT \o << "1", "," >> \o K_ANGLE \o << "2", "0", "0", "0" >> }

EmptyBody == << >>

JointBodies ==
    ValidJointBodies \cup RangeJointBodies \cup BadJointBodies
        \cup CutJointBodies \cup {EmptyBody}

STEP1 == << 0, 45, 100 >>
STEP2 == << 1, 90, 50 >>
STEP_BAD == << 7, 200, 10 >>

MovementsText(ms) == K_MOVEMENTS \o << "[" >> \o ms \o << "]" >>

RecBody(name, ms) ==
    << "{" >> \o K_FILENAME_Q \o name \o << "\"", "," >>
        \o MovementsText(ms) \o << "}" >>

\* a recording request: its body, and the name and the steps the body states
RecInputs ==
    { [text |-> RecBody(N_SEQ, T_STEP1 \o << "," >> \o T_STEP2),
       name |-> N_SEQ, steps |-> << STEP1, STEP2 >>],
      [text |-> RecBody(N_LONG, T_STEP1),
       name |-> N_LONG, steps |-> << STEP1 >>],
      [text |-> RecBody(N_SEQ, << >>), name |-> N_SEQ, steps |-> << >>],
      [text |-> RecBody(N_SEQ, T_STEP_BAD),
       name |-> N_SEQ, steps |-> << STEP_BAD >>],
      [text |-> RecBody(<< >>, T_STEP1), name |-> << >>, steps |-> << STEP1 >>],
      [text |-> << "{" >> \o MovementsText(T_STEP1) \o << "}" >>,
       name |-> << >>, steps |-> << STEP1 >>] }

\* a playback request: its body, and the steps the body states
PlayInputs ==
    { [text |-> << "{" >> \o MovementsText(T_STEP1 \o << "," >> \o T_STEP2)
                    \o << "}" >>,
       steps |-> << STEP1, STEP2 >>],
      [text |-> << "{" >> \o MovementsText(<< >>) \o << "}" >>,
       steps |-> << >>],
      [text |-> EmptyBody, steps |-> << >>] }

Methods == { "GET", "POST", "OPTIONS" }

Paths == { "/status", "/joints", "/emergency", "/recording", "/playback", "/" }

----------------------------------------------------------------------------
(* Servo *)

\* max(0, min(180, angle)) with the clamp left out
ClampNone(angle) == angle

\* max(0, min(180, angle))
Clamp(angle) ==
    LET lo == IF angle < ANGLE_MAX THEN angle ELSE ANGLE_MAX
    IN  IF lo > ANGLE_MIN THEN lo ELSE ANGLE_MIN

\* int((1000 + (a / 180) * 1000) * 1024 / 20000)
HttpDuty(a) == ((1000 * 180 + a * 1000) * 1024) \div (180 * 20000)

\* int((500 + a * 11.11) * 1024 / 20000)
WsDuty(a) == ((500 * 100 + a * 1111) * 1024) \div (100 * 20000)

\* int(102 + (angle / 180.0) * (512 - 102))
PcaPulse(a) == (102 * 180 + a * (512 - 102)) \div 180

\* int((500 + (2500 - 500) * a / 180) / (20000 / 4096))
WsPcaPulse(a) == ((500 * 180 + (2500 - 500) * a) * 4096) \div (180 * 20000)

\* the builds of wifi-tester-websockets.py: USE_PCA9685 False or True
WsBuilds == { "ws", "ws_pca" }

\* pot-control.py as it detects its platform: IS_ESP32 True or False
PotBuilds == { "pot_esp32", "pot_esp8266" }

\* int((500 + self.a * 11.11) * 1024 / 20000)
PotDuty(a) == ((500 * 100 + a * 1111) * 1024) \div (100 * 20000)

Duty(v, a) ==
    CASE v = "http" -> HttpDuty(a)
      [] v = "ws"   -> WsDuty(a)
      [] v \in PotBuilds -> PotDuty(a)
      [] v = "ws_pca" -> WsPcaPulse(a)
      [] v = "pca"  -> PcaPulse(a)

Channels(v) == IF v = "pca" THEN 0..(PCA_SERVO_COUNT - 1) ELSE 0..(dof - 1)

\* Servo.move(angle) on channel ch; ok: the hardware write went through.
\* self.a is assigned before the write, so it changes also when the write fails
MoveAngle(sv, ch, angle) == [sv EXCEPT ![ch] = Clamp(angle)]

MoveHw(v, hwv, ch, angle, ok) ==
    IF ok THEN [hwv EXCEPT ![ch] = Duty(v, Clamp(angle))] ELSE hwv

\* whether Servo.move raises when the write fails: PWM.duty raises to the
\* caller, PCA9685.set_pwm has "except: pass" around the I2C write
MoveRaises(v, ok) == ~ok /\ v # "ws_pca"

----------------------------------------------------------------------------
(* The Command Queue *)

\* q.pop() in place of q.pop(0)
PopLast(s) == [item |-> s[Len(s)], rest |-> SubSeq(s, 1, Len(s) - 1)]

\* q.pop(0) taking two entries off the queue
PopTwo(s) ==
    [item |-> Head(s), rest |-> IF Len(s) > 1 THEN Tail(Tail(s)) ELSE Tail(s)]

\* q.pop(0)
Pop0(s) == [item |-> Head(s), rest |-> Tail(s)]

----------------------------------------------------------------------------
(* wifi-4degree-tester.py: the request handlers' decisions *)

\* the text of the field after key: from the key's end to the next ',' or,
\* when there is none, to the next '}'
FieldText(body, key) ==
    LET start == Find(body, key, 0) + 8
        comma == Find(body, << "," >>, start)
        end   == IF comma = -1 THEN Find(body, << "}" >>, start) ELSE comma
    IN  Slice(body, start, end)

\* handle_joint_cmd with the upper bound of the joint check left out
HandleJointCmdNoUpper(body, stopv) ==
    IF stopv \/ body = << >> THEN [ok |-> TRUE, items |-> << >>]
    ELSE IF Contains(body, K_JOINT_MOVE) /\ Contains(body, K_JOINT)
              /\ Contains(body, K_ANGLE)
    THEN LET joint == ParseInt(FieldText(body, K_JOINT))
             angle == ParseInt(FieldText(body, K_ANGLE))
         IN  IF joint.ok /\ angle.ok /\ 0 <= joint.val
             THEN [ok |-> TRUE, items |-> << << joint.val, angle.val >> >>]
             ELSE [ok |-> FALSE, items |-> << >>]
    ELSE [ok |-> FALSE, items |-> << >>]

\* handle_joint_cmd without the `self.stop` guard
HandleJointCmdNoGuard(body, stopv) ==
    IF body = << >> THEN [ok |-> TRUE, items |-> << >>]
    ELSE IF Contains(body, K_JOINT_MOVE) /\ Contains(body, K_JOINT)
              /\ Contains(body, K_ANGLE)
    THEN LET joint == ParseInt(FieldText(body, K_JOINT))
             angle == ParseInt(FieldText(body, K_ANGLE))
         IN  IF joint.ok /\ angle.ok /\ 0 <= joint.val /\ joint.val < dof
             THEN [ok |-> TRUE, items |-> << << joint.val, angle.val >> >>]
             ELSE [ok |-> FALSE, items |-> << >>]
    ELSE [ok |-> FALSE, items |-> << >>]

\* handle_joint_cmd(body): ok is the return value, items what it appends to q.
\* int() raising is caught and returns False
HandleJointCmd(body, stopv) ==
    IF stopv \/ body = << >> THEN [ok |-> TRUE, items |-> << >>]
    ELSE IF Contains(body, K_JOINT_MOVE) /\ Contains(body, K_JOINT)
              /\ Contains(body, K_ANGLE)
    THEN LET joint == ParseInt(FieldText(body, K_JOINT))
             angle == ParseInt(FieldText(body, K_ANGLE))
         IN  IF joint.ok /\ angle.ok /\ 0 <= joint.val /\ joint.val < dof
             THEN [ok |-> TRUE, items |-> << << joint.val, angle.val >> >>]
             ELSE [ok |-> FALSE, items |-> << >>]
    ELSE [ok |-> FALSE, items |-> << >>]

\* the file name save_recording opens: the text between '"filename":"' and
\* the next '"', or "rec.json" when that is longer than 20 characters
RecordingName(body) ==
    LET fn_start == Find(body, K_FILENAME_Q, 0) + 12
        fn_end   == Find(body, << "\"" >>, fn_start)
        filename == Slice(body, fn_start, fn_end)
    IN  IF Len(filename) > NAME_MAX THEN REC_JSON ELSE filename

\* save_recording reaches open(): both keys are in the body
RecordingKeys(body) == Contains(body, K_FILENAME) /\ Contains(body, K_MOVEMENTS)

\* what save_recording writes: f.write('[]'), whatever the movements are
RecordingData(body) == "[]"

\* json.load of a file's contents: the step list it holds
LoadSteps(data) == CASE data = "[]" -> << >>

\* the emergency branch leaving the Command Queue alone
EngageKeepQ(qv) ==
    [stop |-> TRUE, q |-> qv, is_playing |-> FALSE, playback_queue |-> << >>]

\* the /emergency branch of handle_req: stop, q, is_playing, playback_queue
Engage(qv) ==
    [stop |-> TRUE, q |-> << >>, is_playing |-> FALSE, playback_queue |-> << >>]

\* start_playback(body): returns True with q, is_playing, playback_queue reset
StartPlayback(body) ==
    [ok |-> TRUE, q |-> << >>, is_playing |-> FALSE, playback_queue |-> << >>]

\* the stop check with the sleep left out
StopCheckNoSleep(stopv) ==
    IF stopv THEN [pc |-> "grace_sleep", timer |-> 0]
    ELSE [pc |-> "loop_sleep", timer |-> LOOP_MS]

\* the tail of a servo_task iteration: `if self.stop: await asyncio.sleep(2)`,
\* else on to `await asyncio.sleep(0.05)`
StopCheck(stopv) ==
    IF stopv THEN [pc |-> "grace_sleep", timer |-> GRACE_MS]
    ELSE [pc |-> "loop_sleep", timer |-> LOOP_MS]

----------------------------------------------------------------------------
(* The state after construction.  ArmCtrl.led is taken to be there: Pin(2,   *)
(* Pin.OUT) succeeds, so every move is followed by the 20 ms LED sleep.      *)

NoReply == [status |-> 0, reply |-> None]

\* opcode, payload = None, None
NoFrame == [opcode |-> -1, payload |-> << >>]

\* read_frame returned None, None after an error other than EAGAIN
LostFrame == [opcode |-> -2, payload |-> << >>]

\* POT_PINS[:servo_count]
PotPins(v) ==
    IF v = "pot_esp32" THEN << 36, 39, 34, 35 >>
    ELSE IF v = "pot_esp8266" THEN << 0 >>
    ELSE << >>

\* the indices of PotReader.adcs
Pots(v) == 0..(Len(PotPins(v)) - 1)

\* PotReader(pins): every potentiometer starts at the centre
NewPotReader(v) ==
    [last_angles |-> [i \in Pots(v) |-> POT_CENTER], last_read |-> 0]

\* no request is being read
NoRead == [content_length |-> 0, i |-> 0, at |-> "idle"]

\* server.accept() raised EAGAIN: no socket, no handshake
NoHandshake ==
    [request |-> << >>, ok |-> FALSE, response |-> << >>, closed |-> FALSE]

\* the state after construction of program v
Start(v) ==
    /\ variant = v
    /\ servos = IF variant = "pca" THEN << >>
                ELSE [i \in Channels(variant) |-> HOME_ANGLE]
    /\ hw = IF variant = "pca" THEN [i \in Channels(variant) |-> 0]
            ELSE [i \in Channels(variant) |-> Duty(variant, HOME_ANGLE)]
    /\ q = << >>
    /\ stop = FALSE
    /\ is_playing = FALSE
    /\ playback_queue = << >>
    /\ pc = IF variant = "http" THEN "start"
            ELSE IF variant \in WsBuilds THEN "ws_servo"
            ELSE IF variant \in PotBuilds THEN "pot_home" ELSE "cli"
    /\ timer = 0
    /\ files = << >>
    /\ clients = << >>
    /\ resp = NoReply
    /\ elapsed = 0
    /\ started = << >>
    /\ wire = << >>
    /\ frame = NoFrame
    /\ out = << >>
    /\ text = << >>
    /\ hs = NoHandshake
    /\ rd = NoRead
    /\ unsent = << >>
    /\ pot_reader = NewPotReader(variant)
    /\ changes = << >>
    /\ ticks = 0

Init == \E v \in { "http", "ws", "pca" } : Start(v)

----------------------------------------------------------------------------
(* wifi-4degree-tester.py: handle_req, one action per route *)

Route(m, p) ==
    IF m = "OPTIONS" THEN "options"
    ELSE IF p = "/status" THEN "status"
    ELSE IF p = "/joints" /\ m = "POST" THEN "joints"
    ELSE IF p = "/emergency" /\ m = "POST" THEN "emergency"
    ELSE IF p = "/recording" /\ m = "POST" THEN "recording"
    ELSE IF p = "/playback" /\ m = "POST" THEN "playback"
    ELSE "notfound"

Routed(route) == \E m \in Methods, p \in Paths : Route(m, p) = route

\* the responses handle_req writes
OptionsReply == [status |-> 200, reply |-> ""]
StatusReply == [status |-> 200, reply |-> "status"]
OkReply == [status |-> 200, reply |-> "{\"ok\":true}"]
BadJsonReply == [status |-> 400, reply |-> "Bad JSON"]
SaveFailedReply == [status |-> 500, reply |-> "{\"ok\":false}"]
PlayFailedReply == [status |-> 400, reply |-> "{\"ok\":false}"]
NotFoundReply == [status |-> 404, reply |-> "404 Not Found"]

\* handle_joint_cmd on every body the clients send, latch clear and engaged
JointTable ==
    [b \in JointBodies |-> [s \in BOOLEAN |-> HandleJointCmd(b, s)]]

\* save_recording's reading of every body the clients send
RecTable ==
    [b \in { r.text : r \in RecInputs } |->
        [keys |-> RecordingKeys(b), name |-> RecordingName(b),
         data |-> RecordingData(b)]]

loopVars == << servos, hw, pc, timer >>

Options ==
    /\ resp' = OptionsReply
    /\ UNCHANGED << variant, netVars, q, stop, is_playing, playback_queue, files,
                    clients, elapsed, started, loopVars >>

Status ==
    /\ resp' = StatusReply
    /\ UNCHANGED << variant, netVars, q, stop, is_playing, playback_queue, files,
                    clients, elapsed, started, loopVars >>

\* success = self.handle_joint_cmd(body)
Joints(b) ==
    LET r == JointTable[b][stop]
    IN  /\ Len(q) + Len(r.items) <= MaxQueue
        /\ q' = q \o r.items
        /\ resp' = IF r.ok THEN OkReply ELSE BadJsonReply
        /\ UNCHANGED << variant, netVars, stop, is_playing, playback_queue, files,
                        clients, elapsed, started, loopVars >>

\* the handler of /emergency also drives every servo home itself
EmergencyHomes ==
    LET e == Engage(q)
    IN  /\ stop' = e.stop
        /\ q' = e.q
        /\ is_playing' = e.is_playing
        /\ playback_queue' = e.playback_queue
        /\ resp' = OkReply
        /\ elapsed' = IF stop THEN elapsed ELSE 0
        /\ started' = << >>
        /\ servos' = [i \in DOMAIN servos |-> HOME_ANGLE]
        /\ hw' = [i \in DOMAIN hw |-> Duty(variant, HOME_ANGLE)]
        /\ UNCHANGED << variant, netVars, files, clients, pc, timer >>

\* the handler of /emergency also restarts a grace sleep that is under way
EmergencyRestarts ==
    LET e == Engage(q)
    IN  /\ stop' = e.stop
        /\ q' = e.q
        /\ is_playing' = e.is_playing
        /\ playback_queue' = e.playback_queue
        /\ resp' = OkReply
        /\ elapsed' = IF stop THEN elapsed ELSE 0
        /\ started' = << >>
        /\ timer' = IF stop /\ pc = "grace_sleep" THEN GRACE_MS ELSE timer
        /\ UNCHANGED << variant, netVars, files, clients, servos, hw, pc >>

Emergency ==
    LET e == Engage(q)
    IN  /\ stop' = e.stop
        /\ q' = e.q
        /\ is_playing' = e.is_playing
        /\ playback_queue' = e.playback_queue
        /\ resp' = OkReply
        /\ elapsed' = IF stop THEN elapsed ELSE 0
        /\ started' = << >>
        /\ UNCHANGED << variant, netVars, files, clients, loopVars >>

\* success = self.save_recording(body); open('') raises, and open(filename,
\* 'w') or f.write may raise for any name: io = "fail"
Recording(r, io) ==
    LET t  == RecTable[r.text]
        ok == t.keys /\ t.name # << >> /\ io = "ok"
    IN  /\ t.keys \/ io = "ok"
        /\ files' = IF ok
                    THEN [n \in DOMAIN files \cup { t.name } |->
                             IF n = t.name THEN t.data ELSE files[n]]
                    ELSE files
        /\ resp' = IF ok THEN OkReply ELSE SaveFailedReply
        /\ UNCHANGED << variant, netVars, q, stop, is_playing, playback_queue, clients,
                        elapsed, started, loopVars >>

\* success = self.start_playback(body)
Playback(r) ==
    LET s == StartPlayback(r.text)
    IN  /\ q' = s.q
        /\ is_playing' = s.is_playing
        /\ playback_queue' = s.playback_queue
        /\ started' = IF s.ok THEN r.steps ELSE started
        /\ resp' = IF s.ok THEN OkReply ELSE PlayFailedReply
        /\ UNCHANGED << variant, netVars, stop, files, clients, elapsed, loopVars >>

NotFound ==
    /\ resp' = NotFoundReply
    /\ UNCHANGED << variant, netVars, q, stop, is_playing, playback_queue, files,
                    clients, elapsed, started, loopVars >>

\* handle_req on a request with method m and path p
HandleReq(m, p) ==
    /\ variant = "http"
    /\ CASE Route(m, p) = "options" -> Options
         [] Route(m, p) = "status" -> Status
         [] Route(m, p) = "joints" -> \E b \in JointBodies : Joints(b)
         [] Route(m, p) = "emergency" -> Emergency
         [] Route(m, p) = "recording" ->
              \E r \in RecInputs, io \in { "ok", "fail" } : Recording(r, io)
         [] Route(m, p) = "playback" -> \E r \in PlayInputs : Playback(r)
         [] OTHER -> NotFound

ReqOptions == variant = "http" /\ Routed("options") /\ Options

ReqStatus == variant = "http" /\ Routed("status") /\ Status

ReqJoints ==
    variant = "http" /\ Routed("joints") /\ \E b \in JointBodies : Joints(b)

ReqEmergency == variant = "http" /\ Routed("emergency") /\ Emergency

ReqRecording ==
    /\ variant = "http"
    /\ Routed("recording")
    /\ \E r \in RecInputs, io \in { "ok", "fail" } : Recording(r, io)

ReqPlayback ==
    variant = "http" /\ Routed("playback") /\ \E r \in PlayInputs : Playback(r)

ReqNotFound == variant = "http" /\ Routed("notfound") /\ NotFound

----------------------------------------------------------------------------
(* wifi-4degree-tester.py: servo_task *)

\* servos[joint] for joint < len(servos): a negative index counts from the end
Index(joint) == IF joint < 0 THEN joint + dof ELSE joint

\* One iteration of the loop, from its top to its first await.
\* ok = FALSE: the hardware write raises, the except branch sleeps 0.1 s
ServoIter ==
    /\ variant = "http"
    /\ pc \in { "start", "loop_sleep", "err_sleep" }
    /\ timer = 0
    /\ IF is_playing /\ playback_queue # << >>
       THEN LET step == Head(playback_queue)
            IN  /\ playback_queue' = Tail(playback_queue)
                /\ started' = IF started = << >> THEN started ELSE Tail(started)
                /\ IF step[1] < dof
                   THEN \E ok \in BOOLEAN :
                          /\ servos' = MoveAngle(servos, Index(step[1]), step[2])
                          /\ hw' = MoveHw(variant, hw, Index(step[1]), step[2], ok)
                          /\ pc' = IF ok THEN "play_sleep" ELSE "err_sleep"
                          /\ timer' = IF ok THEN step[3] ELSE ERR_MS
                          /\ UNCHANGED is_playing
                   ELSE /\ is_playing' = IF Tail(playback_queue) = << >>
                                         THEN FALSE ELSE is_playing
                        /\ pc' = StopCheck(stop).pc
                        /\ timer' = StopCheck(stop).timer
                        /\ UNCHANGED << servos, hw >>
                /\ UNCHANGED q
       ELSE IF ~stop /\ q # << >>
       THEN LET r == Pop0(q)
                joint == r.item[1]
                angle == r.item[2]
            IN  /\ q' = r.rest
                /\ IF joint < dof
                   THEN \E ok \in BOOLEAN :
                          /\ servos' = MoveAngle(servos, Index(joint), angle)
                          /\ hw' = MoveHw(variant, hw, Index(joint), angle, ok)
                          /\ pc' = IF ok THEN "led_sleep" ELSE "err_sleep"
                          /\ timer' = IF ok THEN LED_MS ELSE ERR_MS
                   ELSE /\ pc' = StopCheck(stop).pc
                        /\ timer' = StopCheck(stop).timer
                        /\ UNCHANGED << servos, hw >>
                /\ UNCHANGED << is_playing, playback_queue, started >>
       ELSE /\ pc' = StopCheck(stop).pc
            /\ timer' = StopCheck(stop).timer
            /\ UNCHANGED << servos, hw, q, is_playing, playback_queue,
                            started >>
    /\ UNCHANGED << variant, netVars, stop, files, clients, resp, elapsed >>

\* servo_task resumes from the sleep it was suspended in
ServoResume ==
    /\ variant = "http"
    /\ pc \in { "play_sleep", "led_sleep", "grace_sleep" }
    /\ timer = 0
    /\ CASE pc = "play_sleep" ->
              /\ is_playing' = IF playback_queue = << >> THEN FALSE
                               ELSE is_playing
              /\ pc' = StopCheck(stop).pc
              /\ timer' = StopCheck(stop).timer
              /\ UNCHANGED << stop, elapsed >>
         [] pc = "led_sleep" ->
              /\ pc' = StopCheck(stop).pc
              /\ timer' = StopCheck(stop).timer
              /\ UNCHANGED << stop, elapsed, is_playing >>
         [] pc = "grace_sleep" ->
              /\ stop' = FALSE
              /\ elapsed' = 0
              /\ pc' = "loop_sleep"
              /\ timer' = LOOP_MS
              /\ UNCHANGED is_playing
    /\ UNCHANGED << variant, netVars, servos, hw, q, playback_queue, files, clients,
                    resp, started >>

\* Time passes: up to the end of the pending sleep, and TimeStep ms at most
Advance ==
    LET d == IF timer > 0 /\ timer < TimeStep THEN timer ELSE TimeStep
    IN  /\ variant \in { "http" } \cup WsBuilds
        /\ (timer = 0) => (stop /\ elapsed < GRACE_MS)
        /\ timer' = IF timer > d THEN timer - d ELSE 0
        /\ elapsed' = IF ~stop THEN elapsed
                      ELSE IF elapsed + d < GRACE_MS THEN elapsed + d
                      ELSE GRACE_MS
        /\ UNCHANGED << variant, netVars, servos, hw, q, stop, is_playing,
                        playback_queue, pc, files, clients, resp, started >>

----------------------------------------------------------------------------
(* wifi-tester-websockets.py: handle_msg, servo_loop and the loop of run *)

\* decoded messages: t, j, a as json.loads returns them; << >>: key absent,
\* << n >>: the int n, << n, f >>: the float n.f
WsMsgs ==
    { [t |-> "move", j |-> << 3 >>, a |-> << 180 >>],
      [t |-> "move", j |-> << >>, a |-> << >>],
      [t |-> "move", j |-> << 7 >>, a |-> << 90 >>],
      [t |-> "move", j |-> << -1 >>, a |-> << 90 >>],
      [t |-> "move", j |-> << 1 >>, a |-> << 200 >>],
      [t |-> "stop", j |-> << >>, a |-> << >>],
      [t |-> "home", j |-> << >>, a |-> << >>],
      [t |-> "status", j |-> << >>, a |-> << >>],
      [t |-> "ping", j |-> << >>, a |-> << >>] }

StopMsg == [t |-> "stop", j |-> << >>, a |-> << >>]

\* what read_frame returns: (None, None) for no data or a refused frame, with
\* the connection kept ("none") or marked lost ("lost"); a close frame; a
\* frame of another opcode, a text frame with no payload, or one whose
\* payload json.loads rejects ("other")
WsQuietFrames == { "none", "lost", "close", "other" }

\* data.get('j', 0), data.get('a', 90)
Get(v, default) == IF v = << >> THEN default ELSE v[1]

\* the text frames handle_msg sends
AckFrame == [status |-> 0, reply |-> "{\"t\":\"ack\"}"]
ErrFrame == [status |-> 0, reply |-> "{\"t\":\"err\"}"]
StatusFrame == [status |-> 0, reply |-> "{\"t\":\"status\"}"]
ReadyFrame == [status |-> 0, reply |-> "{\"t\":\"status\",\"ready\"}"]

\* the stop branch of handle_msg leaving the Command Queue alone
WsEngageKeepQ(qv) == [stop |-> TRUE, q |-> qv]

\* the stop branch of handle_msg: stop, q
WsEngage(qv) == [stop |-> TRUE, q |-> << >>]

\* the home branch putting its instructions ahead of the queued ones
HomeAhead(qv) == [i \in 1..dof |-> << i - 1, HOME_ANGLE >>] \o qv

\* for i in range(len(self.servos)): self.q.append((i, 90))
Home(qv) == qv \o [i \in 1..dof |-> << i - 1, HOME_ANGLE >>]

\* the tuple (j, a) of self.q.append((j, a)): j is the number json.loads
\* returned, an int or, with the fraction jv[2], a float
Queued(jv, j, a) == IF Len(jv) = 2 THEN << j, a, jv[2] >> ELSE << j, a >>

\* self.servos[j] takes an int: a float raises TypeError
IsIndex(item) == Len(item) = 2

\* handle_msg with a move checked for its joint only
HandleMsgAnyAngle(msg, qv, stopv) ==
    CASE msg.t = "move" ->
           LET j == Get(msg.j, 0)
               a == Get(msg.a, HOME_ANGLE)
           IN  IF 0 <= j /\ j < dof
               THEN [q |-> Append(qv, Queued(msg.j, j, a)), stop |-> stopv,
                     send |-> << AckFrame >>]
               ELSE [q |-> qv, stop |-> stopv, send |-> << ErrFrame >>]
      [] msg.t = "stop" ->
           [q |-> WsEngage(qv).q, stop |-> WsEngage(qv).stop,
            send |-> << AckFrame >>]
      [] msg.t = "home" ->
           [q |-> Home(qv), stop |-> stopv, send |-> << AckFrame >>]
      [] msg.t = "status" ->
           [q |-> qv, stop |-> stopv, send |-> << StatusFrame >>]
      [] OTHER -> [q |-> qv, stop |-> stopv, send |-> << >>]

\* handle_msg(client, msg): the Command Queue and the latch after it, and the
\* frame it sends (none: << >>)
HandleMsg(msg, qv, stopv) ==
    CASE msg.t = "move" ->
           LET j == Get(msg.j, 0)
               a == Get(msg.a, HOME_ANGLE)
           IN  IF 0 <= j /\ j < dof /\ ANGLE_MIN <= a /\ a <= ANGLE_MAX
               THEN [q |-> Append(qv, Queued(msg.j, j, a)), stop |-> stopv,
                     send |-> << AckFrame >>]
               ELSE [q |-> qv, stop |-> stopv, send |-> << ErrFrame >>]
      [] msg.t = "stop" ->
           [q |-> WsEngage(qv).q, stop |-> WsEngage(qv).stop,
            send |-> << AckFrame >>]
      [] msg.t = "home" ->
           [q |-> Home(qv), stop |-> stopv, send |-> << AckFrame >>]
      [] msg.t = "status" ->
           [q |-> qv, stop |-> stopv, send |-> << StatusFrame >>]
      [] OTHER -> [q |-> qv, stop |-> stopv, send |-> << >>]

\* servo_loop, up to time.sleep(1) when the latch is engaged. A popped j
\* that is no int raises TypeError in self.servos[j], up to run's except.
\* ok = FALSE: the hardware write fails, and Servo.move raises up to the
\* except branch of run unless the PCA9685 driver has swallowed the failure
WsServoLoop ==
    /\ variant \in WsBuilds
    /\ pc = "ws_servo"
    /\ IF stop
       THEN /\ pc' = "ws_grace"
            /\ timer' = WS_GRACE_MS
            /\ UNCHANGED << servos, hw, q >>
       ELSE IF q # << >>
       THEN LET r == Pop0(q)
                joint == r.item[1]
                angle == r.item[2]
            IN  /\ q' = r.rest
                /\ IF joint < dof /\ ~IsIndex(r.item)
                   THEN /\ pc' = "ws_err"
                        /\ timer' = WS_ERR_MS
                        /\ UNCHANGED << servos, hw >>
                   ELSE IF joint < dof
                   THEN \E ok \in BOOLEAN :
                          /\ servos' = MoveAngle(servos, Index(joint), angle)
                          /\ hw' = MoveHw(variant, hw, Index(joint), angle, ok)
                          /\ pc' = IF MoveRaises(variant, ok) THEN "ws_err"
                                   ELSE "ws_accept"
                          /\ timer' = IF MoveRaises(variant, ok)
                                      THEN WS_ERR_MS ELSE 0
                   ELSE /\ pc' = "ws_accept"
                        /\ timer' = 0
                        /\ UNCHANGED << servos, hw >>
       ELSE /\ pc' = "ws_accept"
            /\ timer' = 0
            /\ UNCHANGED << servos, hw, q >>
    /\ UNCHANGED << variant, netVars, stop, is_playing, playback_queue, files,
                    clients, resp, elapsed, started >>

\* servo_loop after time.sleep(1): self.stop = False; return
WsGraceEnd ==
    /\ variant \in WsBuilds
    /\ pc = "ws_grace"
    /\ timer = 0
    /\ stop' = FALSE
    /\ elapsed' = 0
    /\ pc' = "ws_accept"
    /\ UNCHANGED << variant, netVars, servos, hw, q, is_playing, playback_queue,
                    timer, files, clients, resp, started >>

\* the new client added with the old one left in the list
AddClientKeepOld(cl, c) == Append(cl, c)

\* if self.clients: self.clients[0].close(); self.clients = []
\* self.clients.append(client)
AddClient(cl, c) == << c >>

\* server.accept() and ws_handshake: no connection pending ("none"), a
\* handshake refused ("refused"), or a new client, which replaces the old one
\* and is sent the ready status (sent: the send went through)
WsAccept ==
    /\ variant \in WsBuilds
    /\ pc = "ws_accept"
    /\ \E ev \in { "none", "refused", "client" }, sent \in BOOLEAN :
        /\ (ev # "client") => sent
        /\ clients' = IF ev = "client"
                      THEN AddClient(clients, [connected |-> sent])
                      ELSE clients
        /\ resp' = IF ev = "client" THEN ReadyFrame ELSE resp
    /\ pc' = "ws_clients"
    /\ UNCHANGED << variant, netVars, servos, hw, q, stop, is_playing, playback_queue,
                    timer, files, elapsed, started >>

\* a client is held and not marked disconnected
Connected == clients # << >> /\ clients[1].connected

\* the rest of an iteration, from the cleanup to time.sleep(0.02)
WsIterEnd ==
    /\ pc' = "ws_sleep"
    /\ timer' = WS_LOOP_MS
    /\ UNCHANGED << variant, potVars, servos, hw, is_playing, playback_queue, files,
                    started, rd, unsent >>

\* No client, or a client already marked disconnected, which is closed and
\* removed
WsNoClient ==
    /\ ~Connected
    /\ clients' = << >>
    /\ UNCHANGED << q, stop, elapsed, resp >>
    /\ WsIterEnd

\* read_frame returns no text for handle_msg
WsQuiet(kind) ==
    /\ Connected
    /\ clients' = CASE kind = "lost" -> << [connected |-> FALSE] >>
                    [] kind = "close" -> << >>
                    [] OTHER -> clients
    /\ UNCHANGED << q, stop, elapsed, resp >>
    /\ WsIterEnd

\* read_frame returns a text frame, which handle_msg decodes to msg
\* (sent: the reply went through), the Command Queue staying within bound
WsTextWithin(msg, sent, bound) ==
    LET r == HandleMsg(msg, q, stop)
    IN  /\ Connected
        /\ (r.send = << >>) => sent
        /\ Len(r.q) <= bound
        /\ q' = r.q
        /\ stop' = r.stop
        /\ elapsed' = IF r.stop /\ ~stop THEN 0 ELSE elapsed
        /\ clients' = << [connected |-> sent] >>
        /\ resp' = IF r.send = << >> THEN resp ELSE r.send[1]
        /\ WsIterEnd

WsText(msg, sent) == WsTextWithin(msg, sent, MaxWsQueue)

\* One read_frame per client and what follows from it
WsClients ==
    /\ variant \in WsBuilds
    /\ pc = "ws_clients"
    /\ \/ WsNoClient
       \/ \E kind \in WsQuietFrames : WsQuiet(kind)
       \/ \E msg \in WsMsgs, sent \in BOOLEAN : WsText(msg, sent)
    /\ UNCHANGED netVars

\* the loop of run resumes after time.sleep(0.02) only: its except branch
\* leaves the loop
WsLoopBreaks ==
    /\ variant \in WsBuilds
    /\ pc = "ws_sleep"
    /\ timer = 0
    /\ pc' = "ws_servo"
    /\ UNCHANGED << variant, netVars, servos, hw, q, stop, is_playing, playback_queue,
                    timer, files, clients, resp, elapsed, started >>

\* the loop of run resumes after time.sleep(0.02), or after the
\* time.sleep(0.1) of its except branch
WsLoop ==
    /\ variant \in WsBuilds
    /\ pc \in { "ws_sleep", "ws_err" }
    /\ timer = 0
    /\ pc' = "ws_servo"
    /\ UNCHANGED << variant, netVars, servos, hw, q, stop, is_playing, playback_queue,
                    timer, files, clients, resp, elapsed, started >>

----------------------------------------------------------------------------
(* pca-testcode-4degree.py: PCA9685.set_servo_angle *)

\* if angle < 0: angle = 0 / elif angle > 180: angle = 180
PcaClamp(angle) ==
    IF angle < ANGLE_MIN THEN ANGLE_MIN
    ELSE IF angle > ANGLE_MAX THEN ANGLE_MAX ELSE angle

\* channels and angles the tester drives
PcaChannels == { 0, PCA_SERVO_COUNT - 1 }
PcaAngles == { -10, 0, 45, 90, 180, 200 }

PcaSetServoAngle ==
    /\ variant = "pca"
    /\ \E ch \in PcaChannels, angle \in PcaAngles :
        hw' = [hw EXCEPT ![ch] = Duty(variant, PcaClamp(angle))]
    /\ UNCHANGED << variant, netVars, servos, q, stop, is_playing, playback_queue, pc,
                    timer, files, clients, resp, elapsed, started >>

----------------------------------------------------------------------------
(* wifi-tester-websockets.py: WSClient, byte by byte *)

FRAME_CAP == 512

\* s.recv(n) on the non-blocking socket: up to n of the bytes pending
Recv(w, n) ==
    LET k == IF n < Len(w) THEN n ELSE Len(w)
    IN  [data |-> SubSeq(w, 1, k), rest |-> SubSeq(w, k + 1, Len(w))]

\* a ^ b on bytes
RECURSIVE BitXor(_, _)
BitXor(a, b) ==
    IF a = 0 /\ b = 0 THEN 0
    ELSE (((a % 2) + (b % 2)) % 2) + 2 * BitXor(a \div 2, b \div 2)

\* the unmasking with the first key byte used for every payload byte
UnmaskFirstKey(payload, mask) ==
    [i \in 1..Len(payload) |-> BitXor(payload[i], mask[1])]

\* bytes(payload[i] ^ mask[i % 4] for i in range(len(payload)))
Unmask(payload, mask) ==
    [i \in 1..Len(payload) |-> BitXor(payload[i], mask[((i - 1) % 4) + 1])]

\* read_frame returns None, None with the bytes w left pending
Nothing(w) == [opcode |-> -1, payload |-> << >>, rest |-> w]

\* read_frame() on the pending bytes w: the opcode and payload it returns
\* (opcode -1: None, None) and the bytes it leaves pending
ReadFrame(w) ==
    LET h == Recv(w, 2)
    IN  IF Len(h.data) < 2 THEN Nothing(h.rest)
        ELSE LET b1 == h.data[1]
                 b2 == h.data[2]
                 opcode == b1 % 16
                 masked == (b2 \div 128) % 2
                 len7 == b2 % 128
                 e == IF len7 = 126 THEN Recv(h.rest, 2)
                      ELSE [data |-> << >>, rest |-> h.rest]
             IN  IF len7 = 126 /\ Len(e.data) < 2 THEN Nothing(e.rest)
                 ELSE IF len7 = 127 THEN Nothing(e.rest)
                 ELSE
                 LET payload_len == IF len7 = 126
                                    THEN e.data[1] * 256 + e.data[2] ELSE len7
                     k == IF masked = 1 THEN Recv(e.rest, 4)
                          ELSE [data |-> << >>, rest |-> e.rest]
                 IN  IF masked = 1 /\ Len(k.data) < 4 THEN Nothing(k.rest)
                     ELSE IF payload_len = 0
                     THEN [opcode |-> opcode, payload |-> << >>,
                           rest |-> k.rest]
                     ELSE IF payload_len > FRAME_CAP THEN Nothing(k.rest)
                     ELSE
                     LET pl == Recv(k.rest, payload_len)
                     IN  IF Len(pl.data) < payload_len THEN Nothing(pl.rest)
                         ELSE [opcode |-> opcode,
                               payload |-> IF masked = 1
                                           THEN Unmask(pl.data, k.data)
                                           ELSE pl.data,
                               rest |-> pl.rest]

\* send_text with the 16-bit length low byte first
SendFrameLowFirst(data) ==
    IF Len(data) < 126 THEN << 129, Len(data) >> \o data
    ELSE << 129, 126, Len(data) % 256, Len(data) \div 256 >> \o data

\* the frame send_text(text) sends, data being text.encode('utf-8'), for
\* len(data) <= 65535 (to_bytes(2, 'big') raises on more)
SendFrame(data) ==
    IF Len(data) < 126 THEN << 129, Len(data) >> \o data
    ELSE << 129, 126, Len(data) \div 256, Len(data) % 256 >> \o data

\* the close frame close() sends: b'\x88\x00'
CloseFrame == << 136, 0 >>

(* Texts on the socket, as UTF-8 bytes *)

\* {"t":"status"}
B_STATUS ==
    << 123, 34, 116, 34, 58, 34, 115, 116, 97, 116, 117, 115, 34, 125 >>

\* {"t":"stop"}
B_STOP ==
    << 123, 34, 116, 34, 58, 34, 115, 116, 111, 112, 34, 125 >>

\* {"t":"move","j":3,"a":180}
B_MOVE ==
    << 123, 34, 116, 34, 58, 34, 109, 111, 118, 101, 34, 44, 34, 106, 34, 58,
       51, 44, 34, 97, 34, 58, 49, 56, 48, 125 >>

\* xx
B_JUNK ==
    << 120, 120 >>

\* {"t":"ack"}
B_ACK ==
    << 123, 34, 116, 34, 58, 34, 97, 99, 107, 34, 125 >>

\* {"t":"err"}
B_ERR ==
    << 123, 34, 116, 34, 58, 34, 101, 114, 114, 34, 125 >>

\* the ready status, gc.mem_free() being 20000
B_READY ==
    << 123, 34, 116, 34, 58, 34, 115, 116, 97, 116, 117, 115, 34, 44, 34,
       100, 34, 58, 123, 34, 114, 101, 97, 100, 121, 34, 58, 116, 114, 117,
       101, 44, 34, 109, 101, 109, 34, 58, 50, 48, 48, 48, 48, 125, 125 >>

\* {"t":"status","d":{"angles":[
B_ANGLES_OPEN ==
    << 123, 34, 116, 34, 58, 34, 115, 116, 97, 116, 117, 115, 34, 44, 34,
       100, 34, 58, 123, 34, 97, 110, 103, 108, 101, 115, 34, 58, 91 >>

\* the end of the status reply, gc.mem_free() being 20000
B_ANGLES_CLOSE ==
    << 93, 44, 34, 109, 101, 109, 34, 58, 50, 48, 48, 48, 48, 125, 125 >>

\* str(n) for n >= 0, as bytes
RECURSIVE IntBytes(_)
IntBytes(n) ==
    IF n < 10 THEN << 48 + n >>
    ELSE IntBytes(n \div 10) \o << 48 + (n % 10) >>

\* the items of str(list) of the angles of channels i..dof-1: "90, 90, 180"
RECURSIVE AngleBytes(_, _)
AngleBytes(sv, i) ==
    IF i = dof - 1 THEN IntBytes(sv[i])
    ELSE IntBytes(sv[i]) \o << 44, 32 >> \o AngleBytes(sv, i + 1)

\* the status reply of handle_msg
StatusBytes(sv) == B_ANGLES_OPEN \o AngleBytes(sv, 0) \o B_ANGLES_CLOSE

\* the bytes of a frame record of handle_msg
FrameBytes(f, sv) ==
    CASE f = AckFrame -> B_ACK
      [] f = ErrFrame -> B_ERR
      [] f = StatusFrame -> StatusBytes(sv)
      [] f = ReadyFrame -> B_READY

RECURSIVE TrimSpaces(_)
TrimSpaces(t) ==
    IF t # << >> /\ t[Len(t)] = 32 THEN TrimSpaces(SubSeq(t, 1, Len(t) - 1))
    ELSE t

\* the texts json.loads decodes here, and what it makes of them
WireTexts ==
    { [bytes |-> B_STATUS, msg |-> [t |-> "status", j |-> << >>, a |-> << >>]],
      [bytes |-> B_STOP, msg |-> StopMsg],
      [bytes |-> B_MOVE, msg |-> [t |-> "move", j |-> << 3 >>, a |-> << 180 >>]] }

\* json.loads(payload.decode()): << msg >>, or << >> where it raises;
\* white space after the value is skipped
JsonLoads(payload) ==
    LET hits == { x \in WireTexts : x.bytes = TrimSpaces(payload) }
    IN  IF hits = {} THEN << >> ELSE << (CHOOSE x \in hits : TRUE).msg >>

(* wifi-4degree-tester.py: the bytes handle_req writes *)

\* str(b).lower() as bytes
BoolBytes(b) ==
    IF b THEN << 116, 114, 117, 101 >> ELSE << 102, 97, 108, 115, 101 >>

\* ",".join([str(s.a) for s in self.servos]) from channel i on
RECURSIVE JoinAngles(_, _)
JoinAngles(sv, i) ==
    IF i = dof - 1 THEN IntBytes(sv[i])
    ELSE IntBytes(sv[i]) \o << 44 >> \o JoinAngles(sv, i + 1)

\* json_bytes of /status:
\* {"ok":true,"dof":D,"angles":[..],"emergency_stop":S,"is_playing":P}
StatusBody(sv, stopv, playing) ==
        << 123, 34, 111, 107, 34, 58, 116, 114, 117, 101, 44, 34, 100, 111,
           102, 34, 58 >>
        \o IntBytes(dof)
        \o
        << 44, 34, 97, 110, 103, 108, 101, 115, 34, 58, 91 >>
        \o JoinAngles(sv, 0)
        \o
        << 93, 44, 34, 101, 109, 101, 114, 103, 101, 110, 99, 121, 95, 115,
           116, 111, 112, 34, 58 >>
        \o BoolBytes(stopv)
        \o
        << 44, 34, 105, 115, 95, 112, 108, 97, 121, 105, 110, 103, 34, 58 >>
        \o BoolBytes(playing) \o << 125 >>

\* {"ok":true}, {"ok":false}, Bad JSON, 404 Not Found
B_OK ==
    << 123, 34, 111, 107, 34, 58, 116, 114, 117, 101, 125 >>
B_NOT_OK ==
    << 123, 34, 111, 107, 34, 58, 102, 97, 108, 115, 101, 125 >>
B_BAD_JSON ==
    << 66, 97, 100, 32, 74, 83, 79, 78 >>
B_NOT_FOUND ==
    << 52, 48, 52, 32, 78, 111, 116, 32, 70, 111, 117, 110, 100 >>

\* what handle_req writes for a reply r: the Content-Length header (none:
\* << >>) and the bytes after the headers
Written(r, sv, stopv, playing) ==
    CASE r = OptionsReply -> [cl |-> << >>, body |-> << >>]
      [] r = StatusReply ->
           [cl |-> << Len(StatusBody(sv, stopv, playing)) >>,
            body |-> StatusBody(sv, stopv, playing)]
      [] r = OkReply -> [cl |-> << Len(B_OK) >>, body |-> B_OK]
      [] r = BadJsonReply -> [cl |-> << 8 >>, body |-> B_BAD_JSON]
      [] r \in { SaveFailedReply, PlayFailedReply } ->
           [cl |-> << Len(B_NOT_OK) >>, body |-> B_NOT_OK]
      [] r = NotFoundReply -> [cl |-> << Len(B_NOT_FOUND) >>, body |-> B_NOT_FOUND]

(* Frames the client sends (RFC 6455, client to server) *)

KEY1 == << 55, 250, 33, 61 >>
KEY2 == << 1, 2, 4, 8 >>

\* the client's masking of a payload with its key
MaskWith(payload, key) ==
    [i \in 1..Len(payload) |-> BitXor(payload[i], key[((i - 1) % 4) + 1])]

\* a masked frame with a 7-bit or a 16-bit length
ClientFrame(opcode, payload, key) ==
    (IF Len(payload) < 126 THEN << 128 + opcode, 128 + Len(payload) >>
     ELSE << 128 + opcode, 128 + 126, Len(payload) \div 256,
             Len(payload) % 256 >>)
        \o key \o MaskWith(payload, key)

Spaces(n) == [i \in 1..n |-> 32]

\* the status text with white space after it: 130 bytes
B_STATUS_LONG == B_STATUS \o Spaces(116)

\* FRAME_CAP + 1 bytes that read as frames themselves: an unmasked text
\* frame holding the stop text, then a binary frame that takes up the rest
OVER_WIRE ==
    << 129, Len(B_STOP) >> \o B_STOP
        \o << 2, 126, (FRAME_CAP - 17) \div 256, (FRAME_CAP - 17) % 256 >>
        \o [i \in 1..(FRAME_CAP - 17) |-> 97]

\* a text frame of FRAME_CAP + 1 bytes, which are OVER_WIRE once masked
F_OVER == ClientFrame(1, MaskWith(OVER_WIRE, KEY1), KEY1)

\* the masked frames the client sends whole: opcode, payload and key
SentMasked ==
    { [opcode |-> 1, payload |-> B_STATUS, key |-> KEY1],
      [opcode |-> 1, payload |-> B_STATUS_LONG, key |-> KEY2],
      [opcode |-> 1, payload |-> B_STOP, key |-> KEY1],
      [opcode |-> 1, payload |-> B_MOVE, key |-> KEY2],
      [opcode |-> 1, payload |-> B_JUNK, key |-> KEY1],
      [opcode |-> 8, payload |-> << >>, key |-> KEY1],
      [opcode |-> 9, payload |-> B_STOP, key |-> KEY1],
      [opcode |-> 2, payload |-> B_STOP, key |-> KEY2],
      [opcode |-> 1, payload |-> << >>, key |-> KEY1] }

F_STATUS == ClientFrame(1, B_STATUS, KEY1)
F_STATUS_PLAIN == << 129, Len(B_STATUS) >> \o B_STATUS

\* the status text in a frame with a 64-bit length
F_LEN64 ==
    << 129, 128 + 127, 0, 0, 0, 0, 0, 0, 0, Len(B_STATUS) >>
        \o KEY1 \o MaskWith(B_STATUS, KEY1)

\* the first byte of a frame, the rest not yet arrived
F_SHORT == << 129 >>

\* what the client sends in one go
Streams ==
    { ClientFrame(f.opcode, f.payload, f.key) : f \in SentMasked }
        \cup { F_STATUS_PLAIN, F_SHORT, F_LEN64 \o F_STATUS,
               F_OVER \o F_STATUS }

(* wifi-tester-websockets.py: ws_handshake *)

\* 'sec-websocket-key'
K_WSKEY ==
    << "s", "e", "c", "-", "w", "e", "b", "s", "o", "c", "k", "e", "t", "-",
       "k", "e", "y" >>

\* magic
MAGIC ==
    << "2", "5", "8", "E", "A", "F", "A", "5", "-", "E", "9", "1", "4", "-",
       "4", "7", "D", "A", "-", "9", "5", "C", "A", "-", "C", "5", "A", "B",
       "0", "D", "C", "8", "5", "B", "1", "1" >>

AlphaUpper ==
    << "A", "B", "C", "D", "E", "F", "G", "H", "I", "J", "K", "L", "M", "N",
       "O", "P", "Q", "R", "S", "T", "U", "V", "W", "X", "Y", "Z" >>

AlphaLower ==
    << "a", "b", "c", "d", "e", "f", "g", "h", "i", "j", "k", "l", "m", "n",
       "o", "p", "q", "r", "s", "t", "u", "v", "w", "x", "y", "z" >>

\* str.lower() on the characters of a request
LowerText(s) ==
    [i \in 1..Len(s) |->
        IF \E k \in 1..26 : AlphaUpper[k] = s[i]
        THEN AlphaLower[CHOOSE k \in 1..26 : AlphaUpper[k] = s[i]]
        ELSE s[i]]

\* s.split('\n')
RECURSIVE SplitLines(_)
SplitLines(s) ==
    LET i == Find(s, << "\n" >>, 0)
    IN  IF i = -1 THEN << s >>
        ELSE << Slice(s, 0, i) >> \o SplitLines(Slice(s, i + 1, Len(s)))

WhiteSpace == { " ", "\t", "\n", "\r" }

\* s.strip() on a line of a request
RECURSIVE StripWs(_)
StripWs(s) ==
    IF s # << >> /\ Head(s) \in WhiteSpace THEN StripWs(Tail(s))
    ELSE IF s # << >> /\ s[Len(s)] \in WhiteSpace
    THEN StripWs(SubSeq(s, 1, Len(s) - 1))
    ELSE s

\* binascii.b2a_base64(hashlib.sha1(data.encode()).digest()).decode().strip():
\* the digest and its base64 text are the library's, kept as terms
AcceptKey(data) == [b64 |-> [sha1 |-> data]]

\* the response ws_handshake sends
Response(accept_key) ==
    [line |-> "HTTP/1.1 101 Switching Protocols", Upgrade |-> "websocket",
     Connection |-> "Upgrade", SecWebSocketAccept |-> accept_key]

\* ws_handshake(sock) on the request received: its result and the response
\* it sends (none: << >>)
WsHandshake(request) ==
    LET lines == SplitLines(request)
        hits == { i \in 1..Len(lines) :
                    Contains(LowerText(lines[i]), K_WSKEY) }
        No == [ok |-> FALSE, response |-> << >>]
    IN  IF request = << >> THEN No
        ELSE IF hits = {} THEN No
        ELSE LET line == lines[Min(hits)]
                 c == Find(line, << ":" >>, 0)
                 key == StripWs(Slice(line, c + 1, Len(line)))
             IN  IF c = -1 THEN No
                 ELSE IF key = << >> THEN No
                 ELSE [ok |-> TRUE,
                       response |-> << Response(AcceptKey(key \o MAGIC)) >>]

\* requests on an accepted socket, and the Sec-WebSocket-Key header each
\* carries (none: << >>)
Requests ==
    << \* a request of a browser
       [text |->
            << "G", "E", "T", " ", "/", " ", "H", "T", "T", "P", "/", "1",
               ".", "1", "\r", "\n", "H", "o", "s", "t", ":", " ", "a", "r",
               "m", "\r", "\n", "U", "p", "g", "r", "a", "d", "e", ":", " ",
               "w", "e", "b", "s", "o", "c", "k", "e", "t", "\r", "\n", "S",
               "e", "c", "-", "W", "e", "b", "S", "o", "c", "k", "e", "t",
               "-", "K", "e", "y", ":", " ", "d", "G", "h", "l", "I", "H",
               "N", "h", "b", "X", "B", "s", "Z", "S", "B", "u", "b", "2",
               "5", "j", "Z", "Q", "=", "=", "\r", "\n", "\r", "\n" >>,
        key |->
            << "d", "G", "h", "l", "I", "H", "N", "h", "b", "X", "B", "s",
               "Z", "S", "B", "u", "b", "2", "5", "j", "Z", "Q", "=", "=" >>],
       \* the header in lower case, no space before the key
       [text |->
            << "G", "E", "T", " ", "/", " ", "H", "T", "T", "P", "/", "1",
               ".", "1", "\r", "\n", "s", "e", "c", "-", "w", "e", "b", "s",
               "o", "c", "k", "e", "t", "-", "k", "e", "y", ":", "x", "3",
               "J", "J", "H", "M", "b", "D", "L", "1", "E", "z", "L", "k",
               "h", "9", "G", "B", "h", "X", "D", "w", "=", "=", "\r", "\n",
               "\r", "\n" >>,
        key |->
            << "x", "3", "J", "J", "H", "M", "b", "D", "L", "1", "E", "z",
               "L", "k", "h", "9", "G", "B", "h", "X", "D", "w", "=", "=" >>],
       \* no key header
       [text |->
            << "G", "E", "T", " ", "/", " ", "H", "T", "T", "P", "/", "1",
               ".", "1", "\r", "\n", "H", "o", "s", "t", ":", " ", "a", "r",
               "m", "\r", "\n", "U", "p", "g", "r", "a", "d", "e", ":", " ",
               "w", "e", "b", "s", "o", "c", "k", "e", "t", "\r", "\n", "\r",
               "\n" >>,
        key |->
            << >>],
       \* the peer sent nothing
       [text |->
            << >>,
        key |->
            << >>],
       \* the headers of the older protocol: Sec-WebSocket-Key1, no Sec-WebSocket-Key
       [text |->
            << "G", "E", "T", " ", "/", " ", "H", "T", "T", "P", "/", "1",
               ".", "1", "\r", "\n", "S", "e", "c", "-", "W", "e", "b", "S",
               "o", "c", "k", "e", "t", "-", "K", "e", "y", "1", ":", " ",
               "4", " ", "@", "1", " ", "4", "6", "5", "4", "6", "x", "W",
               "%", "0", "l", " ", "1", " ", "5", "\r", "\n", "\r", "\n" >>,
        key |->
            << >>],
       \* the header's name in the path of the request line
       [text |->
            << "G", "E", "T", " ", "/", "s", "e", "c", "-", "w", "e", "b",
               "s", "o", "c", "k", "e", "t", "-", "k", "e", "y", " ", "H",
               "T", "T", "P", "/", "1", ".", "1", "\r", "\n", "S", "e", "c",
               "-", "W", "e", "b", "S", "o", "c", "k", "e", "t", "-", "K",
               "e", "y", ":", " ", "d", "G", "h", "l", "I", "H", "N", "h",
               "b", "X", "B", "s", "Z", "S", "B", "u", "b", "2", "5", "j",
               "Z", "Q", "=", "=", "\r", "\n", "\r", "\n" >>,
        key |->
            << "d", "G", "h", "l", "I", "H", "N", "h", "b", "X", "B", "s",
               "Z", "S", "B", "u", "b", "2", "5", "j", "Z", "Q", "=", "=" >>] >>

\* ws_handshake on each of the requests
Handshakes == [i \in 1..Len(Requests) |-> WsHandshake(Requests[i].text)]

(* wifi-tester-websockets.py: the loop of run on the bytes of the socket *)

\* the client sends while nothing it sent earlier is pending
WsArrive ==
    /\ variant = "ws"
    /\ Connected
    /\ wire = << >>
    /\ \E st \in Streams : wire' = st
    /\ UNCHANGED << variant, potVars, servos, hw, q, stop, is_playing, playback_queue,
                    pc, timer, files, clients, resp, elapsed, started,
                    frame, out, text, hs, rd, unsent >>

\* server.accept() and ws_handshake: no connection pending (i = 0) or the
\* request i on a new socket. After a handshake the new client replaces the
\* old one, its socket has nothing pending and it is sent the ready status
\* (sent: the send went through); otherwise the socket is closed
Accepted(i, sent) ==
    LET request == Requests[IF i = 0 THEN 1 ELSE i].text
        h == Handshakes[IF i = 0 THEN 1 ELSE i]
        add == i > 0 /\ h.ok
    IN  /\ (~add) => sent
        /\ hs' = IF i = 0 THEN NoHandshake
                 ELSE [request |-> request, ok |-> h.ok,
                       response |-> h.response, closed |-> ~h.ok]
        /\ clients' = IF add THEN AddClient(clients, [connected |-> sent])
                      ELSE clients
        /\ resp' = IF add THEN ReadyFrame ELSE resp
        /\ wire' = IF add THEN << >> ELSE wire
        /\ text' = IF add THEN B_READY ELSE text
        /\ out' = IF add /\ sent THEN SendFrame(B_READY) ELSE out
        /\ pc' = "ws_clients"
        /\ UNCHANGED << variant, potVars, servos, hw, q, stop, is_playing,
                        playback_queue, timer, files, elapsed, started,
                        frame, rd, unsent >>

\* accept finds no connection, or one whose request has arrived
WsWireAccept ==
    /\ variant = "ws"
    /\ pc = "ws_accept"
    /\ \E i \in 0..Len(Requests), sent \in BOOLEAN : Accepted(i, sent)

\* accept finds a connection whose peer has sent nothing yet: ws_handshake
\* sets the socket blocking and waits in sock.recv(1024)
WsAcceptWait ==
    /\ variant = "ws"
    /\ pc = "ws_accept"
    /\ pc' = "ws_recv"
    /\ hs' = NoHandshake
    /\ UNCHANGED << variant, potVars, servos, hw, q, stop, is_playing, playback_queue,
                    timer, files, clients, resp, elapsed, started, wire,
                    frame, out, text, rd, unsent >>

\* the peer sends its request, or closes (the empty request): recv returns
WsRecvRequest ==
    /\ variant = "ws"
    /\ pc = "ws_recv"
    /\ \E i \in 1..Len(Requests), sent \in BOOLEAN : Accepted(i, sent)

\* the client is not connected: no read_frame
WireIdle ==
    /\ WsNoClient
    /\ wire' = << >>
    /\ UNCHANGED << frame, out, text, hs >>

\* recv raises an error other than EAGAIN
WireLost ==
    /\ WsQuiet("lost")
    /\ frame' = LostFrame
    /\ UNCHANGED << wire, out, text, hs >>

\* the branch of run with any opcode taken for text
BranchAnyText(opcode, payload) ==
    IF opcode = 8 THEN "close"
    ELSE IF payload # << >> THEN "text" ELSE "none"

\* if opcode == 8: ... elif opcode == 1 and payload: ...
Branch(opcode, payload) ==
    IF opcode = 8 THEN "close"
    ELSE IF opcode = 1 /\ payload # << >> THEN "text" ELSE "none"

\* opcode, payload = client.read_frame() and the branch run takes on them
WireRead ==
    LET r == ReadFrame(wire)
        d == JsonLoads(r.payload)
        b == Branch(r.opcode, r.payload)
    IN  /\ frame' = [opcode |-> r.opcode, payload |-> r.payload]
        /\ UNCHANGED hs
        /\ IF b = "close"
           THEN /\ WsQuiet("close")
                /\ wire' = << >>
                /\ out' = CloseFrame
                /\ UNCHANGED text
           ELSE IF b = "text"
           THEN /\ wire' = r.rest
                /\ IF d = << >>
                   THEN WsQuiet("other") /\ UNCHANGED << out, text >>
                   ELSE \E sent \in BOOLEAN :
                          /\ WsText(d[1], sent)
                          /\ text' = FrameBytes(resp', servos)
                          /\ out' = IF sent THEN SendFrame(text') ELSE out
           ELSE /\ WsQuiet("none")
                /\ wire' = r.rest
                /\ UNCHANGED << out, text >>

WsWireClients ==
    /\ variant = "ws"
    /\ pc = "ws_clients"
    /\ IF Connected THEN WireRead \/ WireLost ELSE WireIdle

WireNext ==
    \/ WsServoLoop
    \/ WsGraceEnd
    \/ WsWireAccept
    \/ WsAcceptWait
    \/ WsRecvRequest
    \/ WsWireClients
    \/ WsLoop
    \/ Advance
    \/ WsArrive

WireInit == Init /\ variant = "ws"

WireSpec == WireInit /\ [][WireNext]_vars

(* wifi-tester-websockets.py: WSClient.__init__ and send_text on their own *)

\* byte lengths on both sides of the 7-bit limit and of one length byte
TextLens == { 0, 1, 125, 126, 127, 255, 256, MaxText }

\* bytes the texts are made of: ASCII and the bytes of UTF-8 sequences
TextFill == { 32, 97, 123, 195, 226, 255 }

\* the texts send_text is called with: those of handle_msg and run, and
\* texts of the lengths above
OutTexts ==
    { B_ACK, B_ERR, B_READY, StatusBytes([i \in 0..(dof - 1) |-> HOME_ANGLE]) }
        \cup { [i \in 1..n |-> c] : n \in TextLens, c \in TextFill }

\* WSClient(sock): self.connected = True
SendOpen ==
    /\ variant = "ws"
    /\ ~Connected
    /\ clients' = << [connected |-> TRUE] >>
    /\ UNCHANGED << variant, servos, hw, q, stop, is_playing, playback_queue,
                    pc, timer, files, resp, elapsed, started, netVars >>

\* client.send_text(text); ok = FALSE: the send raises
SendText ==
    /\ variant = "ws"
    /\ clients # << >>
    /\ \E t \in OutTexts, ok \in BOOLEAN :
        /\ text' = t
        /\ IF ~clients[1].connected THEN UNCHANGED << clients, out >>
           ELSE IF ok THEN out' = SendFrame(t) /\ UNCHANGED clients
           ELSE clients' = << [connected |-> FALSE] >> /\ UNCHANGED out
    /\ UNCHANGED << variant, potVars, servos, hw, q, stop, is_playing, playback_queue,
                    pc, timer, files, resp, elapsed, started, wire, frame,
                    hs, rd, unsent >>

SendNext ==
    \/ SendOpen
    \/ SendText

SendSpec == WireInit /\ [][SendNext]_vars

(* wifi-tester-websockets.py: run on decoded messages, on its own *)

WsNext ==
    \/ WsServoLoop
    \/ WsGraceEnd
    \/ WsAccept
    \/ WsClients
    \/ WsLoop
    \/ Advance

WsSpec == WireInit /\ [][WsNext]_vars

\* wifi-tester-websockets.py with USE_PCA9685 = True
PcaWsInit == Start("ws_pca")

PcaWsSpec == PcaWsInit /\ [][WsNext]_vars

(* wifi-tester-websockets.py: run with a client that sends home and stop *)

\* One read_frame per client: nothing to read, or a home or stop command
WsHomeClients ==
    /\ variant = "ws"
    /\ pc = "ws_clients"
    /\ \/ WsNoClient
       \/ WsQuiet("none")
       \/ \E m \in { x \in WsMsgs : x.t \in { "home", "stop" } },
             sent \in BOOLEAN : WsTextWithin(m, sent, MaxDeep)
    /\ UNCHANGED netVars

HomeNext ==
    \/ WsServoLoop
    \/ WsGraceEnd
    \/ WsAccept
    \/ WsHomeClients
    \/ WsLoop
    \/ Advance

HomeSpec == WireInit /\ [][HomeNext]_vars

(* wifi-tester-websockets.py: run with a client whose moves name the joint *)
(* by any JSON number *)

\* {"t":"move","j":1.5,"a":90}, {"t":"move","j":3,"a":180},
\* {"t":"move","j":4.5,"a":90}
NumberMoves ==
    { [t |-> "move", j |-> << 1, 5 >>, a |-> << 90 >>],
      [t |-> "move", j |-> << 3 >>, a |-> << 180 >>],
      [t |-> "move", j |-> << 4, 5 >>, a |-> << 90 >>] }

\* One read_frame per client: nothing to read, one of these moves, or stop
WsNumberClients ==
    /\ variant = "ws"
    /\ pc = "ws_clients"
    /\ \/ WsNoClient
       \/ WsQuiet("none")
       \/ \E m \in NumberMoves \cup { StopMsg }, sent \in BOOLEAN :
             WsText(m, sent)
    /\ UNCHANGED netVars

NumberNext ==
    \/ WsServoLoop
    \/ WsGraceEnd
    \/ WsAccept
    \/ WsNumberClients
    \/ WsLoop
    \/ Advance

NumberSpec == WireInit /\ [][NumberNext]_vars

(* wifi-tester-websockets.py: the loop of run, the frames of the client *)
(* reaching the socket in chunks *)

\* the frames the client sends: the status and the stop command, masked
ChunkFrames ==
    { [opcode |-> 1, payload |-> B_STATUS, key |-> KEY1],
      [opcode |-> 1, payload |-> B_STOP, key |-> KEY2] }

\* the client sends a frame; its first k bytes reach the socket
WsChunkSend ==
    /\ variant = "ws"
    /\ Connected
    /\ wire = << >>
    /\ unsent = << >>
    /\ \E f \in ChunkFrames :
         LET st == ClientFrame(f.opcode, f.payload, f.key)
         IN  \E k \in 1..Len(st) :
                /\ wire' = SubSeq(st, 1, k)
                /\ unsent' = SubSeq(st, k + 1, Len(st))
    /\ UNCHANGED << variant, potVars, servos, hw, q, stop, is_playing, playback_queue,
                    pc, timer, files, clients, resp, elapsed, started,
                    frame, out, text, hs, rd >>

\* the next k bytes of the frame reach the socket
WsChunkArrive ==
    /\ variant = "ws"
    /\ unsent # << >>
    /\ \E k \in 1..Len(unsent) :
         /\ wire' = wire \o SubSeq(unsent, 1, k)
         /\ unsent' = SubSeq(unsent, k + 1, Len(unsent))
    /\ UNCHANGED << variant, potVars, servos, hw, q, stop, is_playing, playback_queue,
                    pc, timer, files, clients, resp, elapsed, started,
                    frame, out, text, hs, rd >>

ChunkNext ==
    \/ WsServoLoop
    \/ WsGraceEnd
    \/ WsWireAccept
    \/ WsWireClients
    \/ WsLoop
    \/ Advance
    \/ WsChunkSend
    \/ WsChunkArrive

ChunkSpec == WireInit /\ [][ChunkNext]_vars

(* wifi-4degree-tester.py: read_http_request, the body byte by byte *)

\* the Content-Length a request announces: none or 0, a negative one, small
\* ones and the largest one
ContentLengths == { -1, 0, 1, 2, MaxBody }

\* the body bytes the client sends before it closes: "a" n times, and a
\* body with a two-byte UTF-8 character
SentBodies ==
    { [k \in 1..n |-> 97] : n \in { 0, 1, 2, 3, MaxBody } }
        \cup { << 97, 195, 169 >> }

\* the request line and the headers have been read: content_length is set,
\* body = "" and the loop over range(content_length) is about to start
ReadHttpRequest ==
    /\ variant = "http"
    /\ rd.at # "body"
    /\ \E cl \in ContentLengths, b \in SentBodies :
         /\ rd' = [content_length |-> cl, i |-> 0, at |-> "body"]
         /\ wire' = b
    /\ text' = << >>
    /\ UNCHANGED << variant, potVars, servos, hw, q, stop, is_playing, playback_queue,
                    pc, timer, files, clients, resp, elapsed, started, frame,
                    out, hs, unsent >>

\* char = await reader.read(1): body += char.decode(), or break at the end
\* of the stream; decode raises on a byte that is no character by itself and
\* read_http_request returns None, None, None
ReadBodyByte ==
    /\ variant = "http"
    /\ rd.at = "body"
    /\ rd.i < rd.content_length
    /\ IF wire = << >>
       THEN /\ rd' = [rd EXCEPT !.at = "done"]
            /\ UNCHANGED << wire, text >>
       ELSE IF Head(wire) >= 128
       THEN /\ rd' = [rd EXCEPT !.at = "error"]
            /\ wire' = Tail(wire)
            /\ UNCHANGED text
       ELSE /\ rd' = [rd EXCEPT !.i = rd.i + 1]
            /\ wire' = Tail(wire)
            /\ text' = Append(text, Head(wire))
    /\ UNCHANGED << variant, potVars, servos, hw, q, stop, is_playing, playback_queue,
                    pc, timer, files, clients, resp, elapsed, started, frame,
                    out, hs, unsent >>

\* the loop is over (or content_length > 0 is false): return method, path,
\* body
ReadReturn ==
    /\ variant = "http"
    /\ rd.at = "body"
    /\ rd.i >= rd.content_length
    /\ rd' = [rd EXCEPT !.at = "done"]
    /\ UNCHANGED << variant, potVars, servos, hw, q, stop, is_playing, playback_queue,
                    pc, timer, files, clients, resp, elapsed, started, wire,
                    frame, out, text, hs, unsent >>

ReadNext ==
    \/ ReadHttpRequest
    \/ ReadBodyByte
    \/ ReadReturn

ReadInit == Start("http")

ReadSpec == ReadInit /\ [][ReadNext]_vars

----------------------------------------------------------------------------
(* pot-control.py: PotReader.read_pots and the control loop of run *)

\* adc.read() raised
ADC_FAILS == -1

\* what the ADCs read: the centre, the edge of the deadband around it and
\* the first value beyond it
PotRaws(v) ==
    IF v = "pot_esp32" THEN { 2048, 2116, 2139 } ELSE { 512, 530, 535 }

\* int((raw / 4095.0) * 180) on the ESP32, int((raw / 1024.0) * 180) otherwise
PotAngle(v, raw) ==
    (raw * 180) \div (IF v = "pot_esp32" THEN ESP32_ADC_MAX ELSE ESP8266_ADC_MAX)

\* abs(x)
Abs(x) == IF x < 0 THEN -x ELSE x

\* abs(angle - self.last_angles[i]) > POT_DEADBAND, when adc.read() returned
PotMoved(v, pr, raw, i) ==
    /\ raw[i] # ADC_FAILS
    /\ Abs(PotAngle(v, raw[i]) - pr.last_angles[i]) > POT_DEADBAND

\* the test of the rate limit in read_pots
TooSoon(pr, now) == now - pr.last_read < POT_READ_DELAY

\* read_pots() at time now, the ADCs reading raw: the list it returns and
\* the reader it leaves
ReadPots(v, pr, now, raw) ==
    IF TooSoon(pr, now) THEN [changes |-> << >>, reader |-> pr]
    ELSE LET all == [k \in 1..Len(PotPins(v)) |->
                        << k - 1, IF raw[k - 1] = ADC_FAILS THEN 0
                                  ELSE PotAngle(v, raw[k - 1]) >>]
             Reported(c) == PotMoved(v, pr, raw, c[1])
         IN  [changes |-> SelectSeq(all, Reported),
              reader |->
                [last_angles |->
                    [i \in Pots(v) |-> IF PotMoved(v, pr, raw, i)
                                       THEN PotAngle(v, raw[i])
                                       ELSE pr.last_angles[i]],
                 last_read |-> now]]

\* run: home_servos() and its sleep; a write that raises ends the program
PotHome ==
    /\ variant \in PotBuilds
    /\ pc = "pot_home"
    /\ \E ok \in BOOLEAN :
         IF ok THEN /\ pc' = "pot_read"
                    /\ ticks' = ticks + POT_HOME_MS
                    /\ servos' = [i \in DOMAIN servos |-> HOME_ANGLE]
                    /\ hw' = [i \in DOMAIN hw |-> Duty(variant, HOME_ANGLE)]
         ELSE /\ pc' = "pot_fatal"
              /\ UNCHANGED << ticks, servos, hw >>
    /\ UNCHANGED << variant, q, stop, is_playing, playback_queue, timer, files,
                    clients, resp, elapsed, started, wire, frame, out, text,
                    hs, rd, unsent, pot_reader, changes >>

\* changes = self.pot_reader.read_pots()
PotRead ==
    /\ variant \in PotBuilds
    /\ pc = "pot_read"
    /\ \E raw \in [Pots(variant) -> PotRaws(variant) \cup { ADC_FAILS }] :
         LET r == ReadPots(variant, pot_reader, ticks, raw)
         IN  /\ pot_reader' = r.reader
             /\ changes' = r.changes
             /\ pc' = IF r.changes = << >> THEN "pot_sleep" ELSE "pot_apply"
    /\ UNCHANGED << variant, servos, hw, q, stop, is_playing, playback_queue,
                    timer, files, clients, resp, elapsed, started, wire, frame,
                    out, text, hs, rd, unsent, ticks >>

\* for servo_idx, angle in changes: self.servos[servo_idx].move(angle);
\* a write that raises leaves the loop for the except branch of run
PotApply ==
    /\ variant \in PotBuilds
    /\ pc = "pot_apply"
    /\ changes # << >>
    /\ LET servo_idx == changes[1][1]
           angle == changes[1][2]
       IN  IF servo_idx < dof
           THEN \E ok \in BOOLEAN :
                  /\ servos' = MoveAngle(servos, servo_idx, angle)
                  /\ hw' = MoveHw(variant, hw, servo_idx, angle, ok)
                  /\ changes' = IF ok THEN Tail(changes) ELSE << >>
                  /\ pc' = IF ~ok THEN "pot_err"
                           ELSE IF Tail(changes) = << >> THEN "pot_sleep"
                           ELSE "pot_apply"
           ELSE /\ changes' = Tail(changes)
                /\ pc' = IF Tail(changes) = << >> THEN "pot_sleep"
                         ELSE "pot_apply"
                /\ UNCHANGED << servos, hw >>
    /\ UNCHANGED << variant, q, stop, is_playing, playback_queue, timer, files,
                    clients, resp, elapsed, started, wire, frame, out, text,
                    hs, rd, unsent, pot_reader, ticks >>

\* time.sleep(0.02) at the end of an iteration
PotSleep ==
    /\ variant \in PotBuilds
    /\ pc = "pot_sleep"
    /\ ticks + POT_LOOP_MS <= MaxTicks
    /\ ticks' = ticks + POT_LOOP_MS
    /\ pc' = "pot_read"
    /\ UNCHANGED << variant, servos, hw, q, stop, is_playing, playback_queue,
                    timer, files, clients, resp, elapsed, started, wire, frame,
                    out, text, hs, rd, unsent, pot_reader, changes >>

\* except Exception: print the error, time.sleep(0.5)
PotErrSleep ==
    /\ variant \in PotBuilds
    /\ pc = "pot_err"
    /\ ticks + POT_ERR_MS <= MaxTicks
    /\ ticks' = ticks + POT_ERR_MS
    /\ pc' = "pot_read"
    /\ UNCHANGED << variant, servos, hw, q, stop, is_playing, playback_queue,
                    timer, files, clients, resp, elapsed, started, wire, frame,
                    out, text, hs, rd, unsent, pot_reader, changes >>

PotNext ==
    \/ PotHome
    \/ PotRead
    \/ PotApply
    \/ PotSleep
    \/ PotErrSleep

PotInit == \E v \in PotBuilds : Start(v)

PotSpec == PotInit /\ [][PotNext]_vars

----------------------------------------------------------------------------

Next ==
    \/ ReqOptions
    \/ ReqStatus
    \/ ReqJoints
    \/ ReqEmergency
    \/ ReqRecording
    \/ ReqPlayback
    \/ ReqNotFound
    \/ ServoIter
    \/ ServoResume
    \/ Advance
    \/ WsServoLoop
    \/ WsGraceEnd
    \/ WsAccept
    \/ WsClients
    \/ WsLoop
    \/ PcaSetServoAngle

Spec == Init /\ [][Next]_vars

\* The asyncio loop runs servo_task whenever its sleep is over, run's loop
\* goes on after each blocking call, and time passes
Fairness ==
    /\ WF_vars(ServoIter)
    /\ WF_vars(ServoResume)
    /\ WF_vars(Advance)
    /\ WF_vars(WsServoLoop)
    /\ WF_vars(WsGraceEnd)
    /\ WF_vars(WsAccept)
    /\ WF_vars(WsClients)
    /\ WF_vars(WsLoop)

FairSpec == Spec /\ Fairness

----------------------------------------------------------------------------
(* Properties *)

\* clamp(A, 0, 180), stated by cases
Clamped(a) == IF a < 0 THEN 0 ELSE IF a > 180 THEN 180 ELSE a

\* the hardware values of the angles 0..180
InRangeHttp == { HttpDuty(a) : a \in 0..180 }
InRangeWs == { WsDuty(a) : a \in 0..180 }
InRangePca == { PcaPulse(a) : a \in 0..180 }

InRangeDuties(v) ==
    CASE v = "http" -> InRangeHttp
      [] v = "ws"   -> InRangeWs
      [] v = "pca"  -> InRangePca

\* a step of the scheduler that takes the head of the Command Queue
Dispatch == (ServoIter \/ WsServoLoop) /\ q # << >> /\ q' = Tail(q)

AnglesInRange ==
    /\ \A i \in DOMAIN servos : servos[i] \in 0..180
    /\ \A i \in DOMAIN hw :
         \/ hw[i] \in InRangeDuties(variant)
         \/ variant = "pca" /\ hw[i] = 0

DispatchClamps ==
    Dispatch =>
       LET j == Head(q)[1]
           A == Head(q)[2]
       IN  /\ servos'[j] = Clamped(A)
           /\ hw'[j] \in { hw[j], Duty(variant, Clamped(A)) }

PcaWritesInRange ==
    PcaSetServoAngle =>
       \A i \in DOMAIN hw :
          hw'[i] # hw[i] => hw'[i] \in InRangeDuties(variant)

\* C1: every stored angle lies in [0,180] and every hardware value written is
\* the value of an angle in [0,180] (a PCA9685 channel never written holds 0);
\* a dispatch of (j, A) stores clamp(A,0,180) for j and writes, when the
\* write goes through, the hardware value of clamp(A,0,180); a
\* set_servo_angle changes a channel to the value of an angle in [0,180] only.
C1_MoveClamps ==
    /\ []AnglesInRange
    /\ [][DispatchClamps]_vars
    /\ [][PcaWritesInRange]_vars

\* joint 1 was sent to 200 degrees and stands at 180, with the hardware value
\* of 180; joint 0 was sent to -5 degrees and stands at 0
C1_Witness ==
    /\ variant = "http"
    /\ servos[1] = 180 /\ hw[1] = Duty("http", 180)
    /\ servos[0] = 0 /\ hw[0] = Duty("http", 0)

QueueStep ==
    variant \in { "http", "ws" } =>
       /\ \/ q' = q
          \/ Len(q') > Len(q) /\ SubSeq(q', 1, Len(q)) = q
               /\ UNCHANGED << servos, hw >>
          \/ q' = << >> /\ UNCHANGED << servos, hw >>
          \/ q # << >> /\ q' = Tail(q)
               /\ servos' = [servos EXCEPT ![Head(q)[1]] = Clamped(Head(q)[2])]
       /\ servos' # servos => q # << >> /\ q' = Tail(q)

\* C2: the Command Queue changes only by an append at its tail, by being
\* cleared by a handler (which moves nothing), or by the scheduler taking its
\* head; and an actuator's stored angle changes only when the scheduler takes
\* the head (j, A) of the queue and moves j, and no other actuator, to
\* clamp(A,0,180).  So instructions are dispatched in the order they were
\* enqueued, each at most once, none re-ordered, duplicated or merged.
C2_Fifo == [][QueueStep]_vars

\* (1,200) was enqueued before (0,-5) and has just been dispatched, while
\* (0,-5) waits at the head of the queue
C2_Witness ==
    /\ variant = "http"
    /\ pc = "led_sleep" /\ timer = LED_MS
    /\ servos[1] = 180 /\ servos[0] = HOME_ANGLE
    /\ q # << >> /\ q[1] = << 0, -5 >>

\* the stop message arrives
WsStop ==
    variant = "ws" /\ pc = "ws_clients"
        /\ \E sent \in BOOLEAN : WsText(StopMsg, sent)

\* C3: a POST /emergency, or a WebSocket stop message, whatever the state
\* before it, leaves in the one step it takes the latch engaged, the Command
\* Queue empty, the playback cursor empty and the Playback Session inactive.
C3_EngageClears ==
    [][(ReqEmergency \/ WsStop) =>
         (stop' /\ q' = << >> /\ playback_queue' = << >> /\ ~is_playing')]_vars

\* the latch has just been engaged while the scheduler was between a move
\* and its stop check
C3_Witness ==
    /\ variant = "http"
    /\ stop /\ elapsed = 0 /\ resp = OkReply
    /\ pc = "led_sleep" /\ timer = LED_MS
    /\ q = << >>

\* C4: while the latch is engaged the Command Queue is empty, the Playback
\* Session is inactive and its cursor is empty, and no step taken with the
\* latch engaged changes an actuator's stored angle or hardware value.
C4_LatchedIdle ==
    /\ [](stop => q = << >> /\ ~is_playing /\ playback_queue = << >>)
    /\ [][stop => UNCHANGED << servos, hw >>]_vars

\* the latch is engaged, a POST /joints has been answered since, and the
\* servo task is in its grace sleep
C4_Witness ==
    /\ variant = "http"
    /\ stop /\ elapsed > 0
    /\ pc = "grace_sleep"
    /\ resp = OkReply

\* the grace interval of each controller
Grace(v) == IF v = "ws" THEN WS_GRACE_MS ELSE GRACE_MS

\* C5: the latch is cleared only by the scheduler's own step, only when the
\* grace interval has elapsed since it was engaged, and an engaged latch is
\* always cleared in the end.
C5_LatchClears ==
    /\ [][(stop /\ ~stop') =>
            ((ServoResume \/ WsGraceEnd) /\ elapsed >= Grace(variant))]_vars
    /\ stop ~> ~stop

\* the latch is engaged and the grace interval has elapsed: the next step of
\* the servo task clears it
C5_Witness ==
    /\ variant = "http"
    /\ stop /\ elapsed = GRACE_MS
    /\ pc = "grace_sleep" /\ timer = 0

\* the bodies POST /joints is to refuse
RefusedBodies == RangeJointBodies \cup BadJointBodies

C7_AsStated ==
    [][\A r \in PlayInputs :
         (variant = "http" /\ Playback(r) /\ r.steps # << >>) =>
            (/\ q' = << >>
             /\ is_playing'
             /\ playback_queue' = r.steps
             /\ resp' = OkReply)]_vars

\* C8 as stated: a POST /playback with no movements returns 400 and the
\* Playback Session stays inactive.
C8_AsStated ==
    [][\A r \in PlayInputs :
         (variant = "http" /\ Playback(r) /\ r.steps = << >>) =>
            (resp'.status = 400 /\ ~is_playing')]_vars

\* C9 as stated, its first step: the first iteration of the servo task after
\* a Playback Session was started with steps s1..sn moves s1's joint to s1's
\* angle and then waits s1's delay.
C9_AsStated ==
    [][(ServoIter /\ started # << >>) =>
         (LET s1 == Head(started)
          IN  /\ servos'[s1[1]] = Clamped(s1[2])
              /\ pc' = "play_sleep"
              /\ timer' = s1[3])]_vars

\* C10 as stated: after a POST /recording that succeeds, the file of the
\* name given holds the steps given, in order.
C10_AsStated ==
    [][\A r \in RecInputs, io \in { "ok", "fail" } :
         (variant = "http" /\ Recording(r, io) /\ resp' = OkReply) =>
            (/\ r.name \in DOMAIN files'
             /\ LoadSteps(files'[r.name]) = r.steps)]_vars

\* a step list save is to accept: not empty, every channel in [0, dof),
\* every angle in [0,180]
ValidSteps(steps) ==
    /\ steps # << >>
    /\ \A i \in 1..Len(steps) :
         /\ steps[i][1] \in 0..(dof - 1)
         /\ steps[i][2] \in 0..180

\* C11 as stated: a POST /recording whose step list is empty or holds a step
\* with a channel outside [0, dof) or an angle outside [0,180] is not
\* answered as a success and stores nothing; a persistence failure is
\* answered 500 {"ok":false}; and no save starts playback.
C11_AsStated ==
    [][\A r \in RecInputs, io \in { "ok", "fail" } :
         (variant = "http" /\ Recording(r, io)) =>
            (/\ ~ValidSteps(r.steps) => (resp' # OkReply /\ files' = files)
             /\ io = "fail" => resp' = SaveFailedReply
             /\ ~is_playing' /\ playback_queue' = playback_queue)]_vars

Tick == ServoIter \/ ServoResume \/ WsServoLoop \/ WsGraceEnd

OneInstruction ==
    /\ Cardinality({ i \in DOMAIN servos : servos'[i] # servos[i] }) <= 1
    /\ Cardinality({ i \in DOMAIN hw : hw'[i] # hw[i] }) <= 1
    /\ Tick =>
         /\ \/ q' = q
            \/ /\ q # << >> /\ q' = Tail(q)
               /\ ~stop /\ ~is_playing
               /\ playback_queue' = playback_queue
         /\ \/ playback_queue' = playback_queue
            \/ /\ playback_queue # << >>
               /\ playback_queue' = Tail(playback_queue)
               /\ q' = q

\* C13: no step moves more than one actuator; a step of the scheduler takes
\* at most one entry off the Command Queue or one step off the playback
\* cursor, never both; and it takes a Command Queue entry only with the
\* latch clear and the Playback Session inactive.
C13_OnePerTick == [][OneInstruction]_vars

\* servo_loop has dispatched (3,180) while another instruction waits
C13_Witness ==
    /\ variant = "ws"
    /\ pc = "ws_accept"
    /\ servos[3] = 180 /\ hw[3] = Duty("ws", 180)
    /\ q # << >>
    /\ ~stop


\* a step of run in which read_frame returns without another error than EAGAIN
ReadStep ==
    /\ variant = "ws"
    /\ pc = "ws_clients"
    /\ pc' = "ws_sleep"
    /\ Connected
    /\ frame' # LostFrame

\* the bytes before the mask key: 2, and 2 more for a 16-bit length
HeaderLen(payload) == IF Len(payload) < 126 THEN 2 ELSE 4

\* read_frame on the frame of f: the opcode and the payload of f come back, each
\* byte the pending byte XOR the key byte i mod 4, and the 4 key bytes and the
\* payload are taken off the socket
UnmaskedAs(f) ==
    LET h == HeaderLen(f.payload)
    IN  /\ frame' = [opcode |-> f.opcode, payload |-> f.payload]
        /\ \A i \in 1..Len(f.payload) :
             frame'.payload[i] =
                 BitXor(wire[h + 4 + i], wire[h + ((i - 1) % 4) + 1])
        /\ (f.opcode # 8) => wire' = << >>

UnmaskStep ==
    \A f \in SentMasked :
        (ReadStep /\ wire = ClientFrame(f.opcode, f.payload, f.key))
            => UnmaskedAs(f)

\* C14: for a masked frame with a 7-bit or a 16-bit length within the cap,
\* read_frame reads 4 key bytes and returns the opcode and
\* payload[i] XOR mask[i mod 4]: what the client masked comes back as it was
C14_Unmasks == [][UnmaskStep]_vars

\* the status text in a frame with a 16-bit length has been read, decoded to
\* the status command and answered
C14_Witness ==
    /\ variant = "ws"
    /\ frame = [opcode |-> 1, payload |-> B_STATUS_LONG]
    /\ resp = StatusFrame
    /\ out = SendFrame(StatusBytes(servos))


\* the length field of the pending frame header is 127
Len64Pending == Len(wire) >= 2 /\ wire[2] % 128 = 127

\* after the step no client is held that is not marked disconnected
Dropped == ~Connected'

\* C15: a frame whose 7-bit length field is 127 is a framing error, and the
\* connection it came on is dropped: the client is marked disconnected and
\* removed from the client set
C15_AsStated == [][(ReadStep /\ Len64Pending) => Dropped]_vars


\* the pending frame header holds a 16-bit length above the cap
OverPending ==
    /\ Len(wire) >= 4
    /\ wire[2] % 128 = 126
    /\ wire[3] * 256 + wire[4] > FRAME_CAP

\* the bytes that follow the pending frame: after its header, its key when the
\* mask bit is set, and its payload
AfterFrame(w) ==
    LET n == w[3] * 256 + w[4]
        k == IF w[2] >= 128 THEN 4 ELSE 0
    IN  SubSeq(w, 4 + k + n + 1, Len(w))

\* the frame is refused and taken off the socket whole, the client kept
Discarded ==
    /\ Connected'
    /\ frame' = NoFrame
    /\ wire' = AfterFrame(wire)
    /\ UNCHANGED << q, stop, resp, out >>

\* C16: a frame whose payload length is above the cap is rejected and
\* discarded whole without closing the connection: none of its payload reaches
\* command decode and the next frame is decoded as its own frame
C16_AsStated == [][(ReadStep /\ OverPending) => Discarded]_vars


\* the controller state a frame can change
CtlVars == << servos, hw, q, stop, is_playing, playback_queue, files >>

\* a text frame with a payload: handle_msg is run once on what json.loads
\* makes of it, or not at all when json.loads raises
DecodedOnce ==
    LET d == JsonLoads(frame'.payload)
    IN  IF d = << >> THEN UNCHANGED << CtlVars, resp, out >>
        ELSE /\ q' = HandleMsg(d[1], q, stop).q
             /\ stop' = HandleMsg(d[1], q, stop).stop
             /\ resp' = HandleMsg(d[1], q, stop).send[1]

\* a close frame: the client is closed and removed before the iteration ends
TornDown ==
    /\ clients' = << >>
    /\ out' = CloseFrame
    /\ UNCHANGED << CtlVars, resp >>

Routing ==
    ReadStep =>
        CASE frame'.opcode = 8 -> TornDown
          [] frame'.opcode = 1 /\ frame'.payload # << >> -> DecodedOnce
          [] OTHER -> UNCHANGED << CtlVars, clients, resp, out >>

\* C17: a text frame with a payload is handed to command decode once, a close
\* frame has the client closed and removed in the same iteration, and any
\* other frame, or a text frame without payload, changes nothing
C17_Routing == [][Routing]_vars

\* a move text has been read and handed over once: one instruction is queued
C17_Witness ==
    /\ variant = "ws"
    /\ pc = "ws_sleep"
    /\ frame = [opcode |-> 1, payload |-> B_MOVE]
    /\ q = << << 3, 180 >> >>
    /\ resp = AckFrame


\* the frame f holds the text t as the protocol has the server send it
Framed(t, f) ==
    /\ f[1] = 129
    /\ f[2] < 128
    /\ IF Len(t) < 126
       THEN /\ f[2] = Len(t)
            /\ SubSeq(f, 3, Len(f)) = t
       ELSE /\ f[2] = 126
            /\ f[3] * 256 + f[4] = Len(t)
            /\ f[3] < 256 /\ f[4] < 256
            /\ SubSeq(f, 5, Len(f)) = t

\* a send_text that went through on a connected client
SentFramed == (Connected /\ Connected') => Framed(text', out')

\* C18: for a text of L bytes send_text sends the byte 0x81, the length byte L
\* when L < 126 or the byte 126 and L as 16 bits, high byte first, when
\* L >= 126, and then the text unchanged; the mask bit is never set
C18_SendFraming == [][SentFramed]_vars

\* a text of 256 bytes has been sent with a 16-bit length
C18_Witness ==
    /\ Connected
    /\ Len(text) = 256
    /\ Len(out) = 260
    /\ out[2] = 126 /\ out[3] = 1 /\ out[4] = 0


\* the GUID of RFC 6455
GUID ==
    << "2", "5", "8", "E", "A", "F", "A", "5", "-", "E", "9", "1", "4", "-",
       "4", "7", "D", "A", "-", "9", "5", "C", "A", "-", "C", "5", "A", "B",
       "0", "D", "C", "8", "5", "B", "1", "1" >>

\* a step of run in which a socket is accepted and ws_handshake runs on it
HandshakeStep == pc = "ws_accept" /\ pc' = "ws_clients" /\ hs' # NoHandshake

\* the request carries the key K: 101 with the accept value of K, and the
\* client is held
Upgraded(K) ==
    /\ hs'.ok
    /\ ~hs'.closed
    /\ hs'.response # << >>
    /\ hs'.response[1].line = "HTTP/1.1 101 Switching Protocols"
    /\ hs'.response[1].SecWebSocketAccept = [b64 |-> [sha1 |-> K \o GUID]]
    /\ clients' # << >>

\* the request is refused: no response, the socket closed, no client added
Refused ==
    /\ ~hs'.ok
    /\ hs'.response = << >>
    /\ hs'.closed
    /\ clients' = clients

HandshakeAsStated ==
    HandshakeStep =>
        \A i \in 1..Len(Requests) :
            (hs'.request = Requests[i].text) =>
                IF Requests[i].key # << >> THEN Upgraded(Requests[i].key)
                ELSE Refused

\* C19: a request carrying Sec-WebSocket-Key K is answered 101 Switching
\* Protocols with Sec-WebSocket-Accept = base64(SHA-1(K + GUID)); a request
\* without the header is refused, its socket closed and no client added
C19_AsStated == [][HandshakeAsStated]_vars


\* the move messages that name a joint and an angle
MoveMsgs == { m \in WsMsgs : m.t = "move" /\ m.j # << >> /\ m.a # << >> }

\* {"t":"ack","d":"ok"} and {"t":"error","m":"invalid"}
ACK_OK == "{\"t\":\"ack\",\"d\":\"ok\"}"
ERROR_INVALID == "{\"t\":\"error\",\"m\":\"invalid\"}"

\* what a move does to the Command Queue
MoveQueued(m) ==
    IF 0 <= m.j[1] /\ m.j[1] < dof /\ 0 <= m.a[1] /\ m.a[1] <= 180
    THEN q' = Append(q, << m.j[1], m.a[1] >>)
    ELSE q' = q

\* the answer to a move
MoveAnswered(m) ==
    IF 0 <= m.j[1] /\ m.j[1] < dof /\ 0 <= m.a[1] /\ m.a[1] <= 180
    THEN resp'.reply = ACK_OK
    ELSE resp'.reply = ERROR_INVALID

MoveAsStated ==
    \A m \in MoveMsgs, sent \in BOOLEAN :
        (variant = "ws" /\ pc = "ws_clients" /\ WsText(m, sent))
            => (MoveQueued(m) /\ MoveAnswered(m))

\* C20: a move with 0 <= N < dof and 0 <= A <= 180 appends (N, A) to the
\* Command Queue and is answered {"t":"ack","d":"ok"}; a move out of range
\* leaves the queue alone and is answered {"t":"error","m":"invalid"}
C20_AsStated == [][MoveAsStated]_vars


\* the answer handle_msg gives to a move
MoveReplied(m) ==
    IF 0 <= m.j[1] /\ m.j[1] < dof /\ 0 <= m.a[1] /\ m.a[1] <= 180
    THEN resp'.reply = "{\"t\":\"ack\"}"
    ELSE resp'.reply = "{\"t\":\"err\"}"

MoveAcks ==
    \A m \in MoveMsgs, sent \in BOOLEAN :
        (variant = "ws" /\ pc = "ws_clients" /\ WsText(m, sent))
            => (MoveQueued(m) /\ MoveReplied(m))

\* C20, amended: a move with 0 <= N < dof and 0 <= A <= 180 appends (N, A) to
\* the Command Queue and is answered {"t":"ack"}; a move out of range leaves
\* the queue alone and is answered {"t":"err"}
C20_MoveAcks == [][MoveAcks]_vars

\* a move of joint 3 to 180 has been queued and acknowledged
C20_Witness ==
    /\ variant = "ws"
    /\ pc = "ws_sleep"
    /\ q = << << 3, 180 >> >>
    /\ resp.reply = "{\"t\":\"ack\"}"
    /\ frame = NoFrame


\* the decoded commands with a tag handle_msg does not know, or a move whose
\* joint or angle is out of range
BadMsgs ==
    { m \in WsMsgs :
        \/ m.t \notin { "move", "stop", "home", "status" }
        \/ m \in MoveMsgs /\ ~(0 <= m.j[1] /\ m.j[1] < dof
                               /\ 0 <= m.a[1] /\ m.a[1] <= 180) }

\* the error payloads: the one of the source and the one of the protocol table
ErrorReplies == { "{\"t\":\"err\"}", ERROR_INVALID }

\* the command is answered with an error on its connection, which stays
\* open when the send goes through, and nothing else changes
ErrorAnswered(sent) ==
    /\ resp'.reply \in ErrorReplies
    /\ sent => Connected'
    /\ pc' = "ws_sleep"
    /\ UNCHANGED << q, stop, servos, hw >>

BadMsgAsStated ==
    \A m \in BadMsgs, sent \in BOOLEAN :
        (variant = "ws" /\ pc = "ws_clients" /\ WsText(m, sent))
            => ErrorAnswered(sent)

\* C21: a decoded command with an unrecognized tag or an out-of-range field
\* is answered with an error payload on the same connection, leaves queue,
\* latch and actuators unchanged and neither closes the connection nor stops
\* the loop
C21_AsStated == [][BadMsgAsStated]_vars


HomeMsg == [t |-> "home", j |-> << >>, a |-> << >>]

\* the queue after home: what was queued, then (i, 90) for each channel i in
\* channel order; no servo is moved
HomeQueued ==
    /\ Len(q') = Len(q) + dof
    /\ SubSeq(q', 1, Len(q)) = q
    /\ \A i \in 0..(dof - 1) : q'[Len(q) + i + 1] = << i, 90 >>
    /\ UNCHANGED << servos, hw >>

HomeStep ==
    \A sent \in BOOLEAN :
        (variant = "ws" /\ pc = "ws_clients" /\ WsText(HomeMsg, sent))
            => HomeQueued

\* C22: home appends (i, 90) for every channel i = 0..dof-1, in channel order,
\* to the tail of the Command Queue, keeps what was queued ahead of them and
\* moves no actuator
C22_HomeAppends == [][HomeStep]_vars

\* home has been handled with a move already queued
C22_Witness ==
    /\ variant = "ws"
    /\ pc = "ws_sleep"
    /\ q = << << 3, 180 >>, << 0, 90 >>, << 1, 90 >>, << 2, 90 >>, << 3, 90 >> >>


\* the (method, path) pairs the protocol serves
Served(m, p) ==
    \/ m = "OPTIONS"
    \/ m = "GET" /\ p = "/status"
    \/ m = "POST" /\ p \in { "/joints", "/emergency", "/recording", "/playback" }

\* 404 Not Found, and no controller state changed
Answered404 ==
    /\ resp' = NotFoundReply
    /\ UNCHANGED << servos, hw, q, stop, is_playing, playback_queue, files >>

\* the methods and paths of the requests, and some that are near them
AnyMethod == Methods \cup { "PUT", "get" }
AnyPath == Paths \cup { "/joints/", "/Status" }

RoutingAsStated ==
    \A m \in AnyMethod, p \in AnyPath :
        (~Served(m, p) /\ HandleReq(m, p)) => Answered404

\* C23: only GET /status, POST /joints, POST /emergency, POST /recording,
\* POST /playback and OPTIONS are served; any other method and path gets
\* 404 Not Found and changes no controller state
C23_AsStated == [][RoutingAsStated]_vars


\* the response written in the step has a Content-Length header and its
\* value is the number of bytes of the body
LengthGiven ==
    LET w == Written(resp', servos', stop', is_playing')
    IN  w.cl # << >> /\ w.cl[1] = Len(w.body)

LengthAsStated ==
    \A m \in AnyMethod, p \in AnyPath : HandleReq(m, p) => LengthGiven

\* C24: every response of the HTTP server, on every route, success or
\* failure, OPTIONS, 400, 404 and 500 included, carries a Content-Length
\* header equal to the byte length of the body that follows
C24_AsStated == [][LengthAsStated]_vars


\* C25: the Command Queue is bounded: whatever moves and homes arrive and
\* however slowly the scheduler dispatches, its length never exceeds a fixed
\* cap (the spec's example: 64)
C25_AsStated == Len(q) <= 64


\* C26: at most one WebSocket client is in the client set in every reachable
\* state: a client that completes its handshake while another is connected
\* takes its place
C26_OneClient == Len(clients) <= 1

\* a handshake has just been completed after the client before had sent a
\* ping, which leaves it connected: the new client is the only one held
C26_Witness ==
    /\ variant = "ws"
    /\ pc = "ws_clients"
    /\ hs.ok
    /\ frame.opcode = 9
    /\ clients = << [connected |-> TRUE] >>


\* run is inside a read that waits for bytes a client has not sent
Blocked == variant = "ws" /\ pc = "ws_recv"

\* C27: the loop never blocks on a client: a read with nothing available
\* returns at once, so the loop keeps ticking whatever a client does
C27_AsStated == ~Blocked


\* an iteration of the scheduler that finds an instruction queued, the latch
\* not engaged and no playback step pending takes the head of the queue
TakesHead ==
    ((ServoIter \/ WsServoLoop) /\ q # << >> /\ ~stop
         /\ ~(is_playing /\ playback_queue # << >>))
      => q' = Tail(q)

C29_AsStated ==
    \A i \in DOMAIN servos : hw[i] = Duty(variant, servos[i])


\* servo_loop moves a servo and the hardware write fails: the channel keeps
\* a value that is not the one of the commanded angle
WriteFails ==
    /\ WsServoLoop
    /\ ~stop /\ q # << >> /\ Head(q)[1] < dof
    /\ hw' = hw
    /\ hw[Index(Head(q)[1])] # Duty(variant, Clamp(Head(q)[2]))

\* C30: when a hardware write fails the failure is reported to the caller
\* (run's except branch reports it and the loop goes on after its sleep),
\* and the stored angle is still updated to the commanded, clamped angle.
C30_AsStated ==
    [][WriteFails =>
         /\ pc' = "ws_err"
         /\ servos'[Index(Head(q)[1])] = Clamp(Head(q)[2])]_vars


\* C31: in the two controllers a stored angle or a hardware value changes
\* only in a step of the scheduler that takes an instruction from the head
\* of the Command Queue: no handler of a request or of a message moves a
\* servo.
C31_OnlyDispatch ==
    [][(variant \in { "http", "ws" } /\ (servos' # servos \/ hw' # hw))
         => Dispatch]_vars

\* a status message has been answered after the dispatch of a move of
\* joint 3 to 180 degrees, which is where joint 3 stands
C31_Witness ==
    /\ variant = "ws"
    /\ servos[3] = 180 /\ hw[3] = Duty("ws", 180)
    /\ resp = StatusFrame
    /\ pc = "ws_sleep"


\* POST /emergency served while the latch is engaged
Reengage == variant = "http" /\ stop /\ ReqEmergency

\* the grace sleep of servo_task is under way
InGrace == variant = "http" /\ stop /\ pc = "grace_sleep"

\* C32: a POST /emergency with the latch engaged leaves the latch engaged
\* and the queues empty and changes neither the grace sleep under way nor
\* the time counted since the first engagement; the grace sleep only runs
\* down while the latch stays engaged, and the latch is cleared when that
\* sleep is over.
C32_SameDeadline ==
    /\ [][Reengage =>
            /\ stop' /\ q' = << >> /\ playback_queue' = << >> /\ ~is_playing'
            /\ UNCHANGED << pc, timer, elapsed >>]_vars
    /\ [][(InGrace /\ stop') => (pc' = "grace_sleep" /\ timer' <= timer)]_vars
    /\ [][(variant = "http" /\ stop /\ ~stop') => (InGrace /\ timer = 0)]_vars

\* a part of the grace sleep is over, the latch is engaged and a request made
\* in the meantime has been answered 200
C32_Witness ==
    /\ InGrace
    /\ timer = GRACE_MS - TimeStep /\ elapsed >= TimeStep
    /\ resp = OkReply
    /\ started = << >>
    /\ files = << >>


StatusMsg == [t |-> "status", j |-> << >>, a |-> << >>]

\* "angles":[  and  "stop":  and  "emergency_stop":  and  "dof":  and
\* "is_playing":  as bytes
F_ANGLES == << 34, 97, 110, 103, 108, 101, 115, 34, 58, 91 >>
F_STOP == << 34, 115, 116, 111, 112, 34, 58 >>
F_EMERGENCY == << 34, 101, 109, 101, 114, 103, 101, 110, 99, 121, 95, 115, 116, 111, 112, 34, 58 >>
F_DOF == << 34, 100, 111, 102, 34, 58 >>
F_PLAYING == << 34, 105, 115, 95, 112, 108, 97, 121, 105, 110, 103, 34, 58 >>

\* the body of GET /status gives dof, the stored angles, the latch and
\* is_playing as they are
HttpReports ==
    LET body == Written(resp', servos', stop', is_playing').body
    IN  /\ Contains(body, F_DOF \o IntBytes(dof) \o << 44 >>)
        /\ Contains(body, F_ANGLES \o JoinAngles(servos', 0) \o << 93 >>)
        /\ Contains(body, F_EMERGENCY \o BoolBytes(stop') \o << 44 >>)
        /\ Contains(body, F_PLAYING \o BoolBytes(is_playing') \o << 125 >>)

\* the status text of handle_msg gives the stored angles as they are
WsReportsAngles ==
    Contains(FrameBytes(resp', servos'),
             F_ANGLES \o AngleBytes(servos', 0) \o << 93 >>)

\* the status text of handle_msg gives the latch
WsReportsLatch == Contains(FrameBytes(resp', servos'), F_STOP)

\* a status request leaves the queues, the latch and the servos alone
StatusFrameEffect ==
    UNCHANGED << q, is_playing, playback_queue, stop, servos, hw >>

\* C33: a status request (GET /status, or the message {"t":"status"})
\* reports the stored angle of every channel and the latch flag, over HTTP
\* also dof and is_playing, as they are in the controller, and leaves the
\* Command Queue, the Playback Session, the latch and the servos unchanged.
C33_AsStated ==
    [][/\ ReqStatus => (HttpReports /\ StatusFrameEffect)
       /\ \A sent \in BOOLEAN :
            (variant = "ws" /\ pc = "ws_clients" /\ WsText(StatusMsg, sent))
              => (WsReportsAngles /\ WsReportsLatch /\ StatusFrameEffect)]_vars


\* read_http_request has returned a body
BodyRead == variant = "http" /\ rd.at = "done"

\* C34: the body returned is exactly the Content-Length bytes announced,
\* when the client has sent that many, and it is bounded: a request that
\* announces the largest Content-Length is not read into memory.
C34_AsStated ==
    BodyRead =>
       /\ (Len(text) + Len(wire) >= rd.content_length /\ rd.content_length > 0)
            => Len(text) = rd.content_length
       /\ Len(text) < MaxBody


\* the Playback Session goes from idle to active
SessionStarts == ~is_playing /\ is_playing'

\* the Playback Session goes from active to idle
SessionEnds == is_playing /\ ~is_playing'

C36_AsStated ==
    \A i \in 1..Len(q) : IsIndex(q[i]) /\ q[i][1] \in 0..(dof - 1)


\* what read_frame returns for the frames of ChunkFrames
SentFrames == { [opcode |-> f.opcode, payload |-> f.payload] : f \in ChunkFrames }

\* run calls read_frame on a connected client and the connection is kept
FrameRead ==
    /\ variant = "ws" /\ pc = "ws_clients" /\ pc' = "ws_sleep"
    /\ Connected /\ frame' # LostFrame

\* C37: with well-formed frames reaching the socket in chunks of any size,
\* a read_frame that returns no frame leaves the bytes it has seen pending,
\* and a frame it returns is a frame the client sent: no part of a frame is
\* consumed and the rest then taken for a new frame header.
C37_AsStated ==
    [][FrameRead =>
         IF frame' = NoFrame THEN wire' = wire
         ELSE frame' \in SentFrames]_vars


\* "emergency_stop":true
F_LATCHED == F_EMERGENCY \o BoolBytes(TRUE)

\* s.endswith(pat)
EndsWith(s, pat) ==
    /\ Len(s) >= Len(pat)
    /\ SubSeq(s, Len(s) - Len(pat) + 1, Len(s)) = pat

\* the body of /status ends with the latch engaged and is_playing as it is
ReportsLatched ==
    EndsWith(Written(resp', servos, stop, is_playing).body,
             F_LATCHED \o << 44 >> \o F_PLAYING \o BoolBytes(is_playing)
                 \o << 125 >>)

\* C38: while the latch is engaged every POST /joints, whatever its body, is
\* answered 200 {"ok":true} and enqueues nothing, and a GET /status served
\* then reports emergency_stop true; requests are served during the grace
\* sleep of the servo task.
C38_LatchedServed ==
    [][/\ \A b \in JointBodies :
            (variant = "http" /\ stop /\ Joints(b))
              => (resp' = OkReply /\ q' = q /\ Len(q') = 0)
       /\ (variant = "http" /\ stop /\ ReqStatus)
            => (stop' /\ ReportsLatched)]_vars

\* a GET /status has been answered in the middle of the grace sleep, the
\* latch being engaged
C38_Witness ==
    /\ variant = "http"
    /\ stop /\ pc = "grace_sleep"
    /\ timer = GRACE_MS - TimeStep
    /\ resp = StatusReply


\* a read_pots that comes too soon returns nothing and changes nothing
RateLimited ==
    (pc = "pot_read" /\ TooSoon(pot_reader, ticks))
        => (changes' = << >> /\ pot_reader' = pot_reader)

\* an accepted read_pots reports the channels that moved by more than the
\* deadband, and only their last_angles change
Deadband ==
    (pc = "pot_read" /\ ~TooSoon(pot_reader, ticks))
        => /\ \A k \in 1..Len(changes') :
                LET i == changes'[k][1]
                    angle == changes'[k][2]
                IN  /\ Abs(angle - pot_reader.last_angles[i]) > POT_DEADBAND
                    /\ pot_reader'.last_angles[i] = angle
           /\ \A i \in Pots(variant) :
                (\A k \in 1..Len(changes') : changes'[k][1] # i)
                    => pot_reader'.last_angles[i] = pot_reader.last_angles[i]

\* between two iterations every servo a potentiometer drives is where the
\* reader last saw its potentiometer
PotsFollowed ==
    (variant \in PotBuilds /\ pc = "pot_read")
        => \A i \in Pots(variant) : servos[i] = pot_reader.last_angles[i]

\* C39: read_pots returns no changes and alters no state within
\* POT_READ_DELAY of the previous accepted read; otherwise it reports channel
\* i only when the angle moved by more than POT_DEADBAND and updates
\* last_angles[i] only then; so after every iteration of the control loop
\* each servo's stored angle equals last_angles[i]
C39_AsStated ==
    /\ [][RateLimited /\ Deadband]_vars
    /\ []PotsFollowed

====
